---- MODULE Spec2Model ----
(***************************************************************************)
(* Model of the Amp SDK language-model adapter (amp-language-model.ts,     *)
(* amp-provider.ts, validation.ts, errors.ts, extract-json.ts).            *)
(*                                                                         *)
(* One adapter instance is created (through the provider, which validates  *)
(* the settings, or directly through the exported class) and then serves   *)
(* doGenerate / doStream calls.  The external agent (execute() of          *)
(* @sourcegraph/amp-sdk) is a black box: at every step it yields one       *)
(* event, ends, or raises.                                                 *)
(*                                                                         *)
(* Spec explores the session handling and the event loop with plain call   *)
(* options; SpecConfigured explores configured settings, sampling          *)
(* parameters, prompts of several lengths and the failures the classifier  *)
(* tells apart; SpecInputs explores the conversion of the prompt;          *)
(* SpecExtract the extraction of JSON from the text of a call;             *)
(* SpecConsumer a stream together with the consumer reading it; SpecRaced  *)
(* two calls in flight on the instance at once, their steps interleaved    *)
(* at every await.  In the other specifications one call follows another.  *)
(*                                                                         *)
(* JavaScript values: undefined is the string "undefined", booleans are    *)
(* the strings "true" / "false", texts are sequences of tokens, optional   *)
(* numeric fields are present or absent in the record that carries them.   *)
(***************************************************************************)
EXTENDS Integers, Sequences, FiniteSets, TLC

VARIABLES
    modelState,       \* "none" | "ready" | "rejected" (provider threw)
    settings,         \* this.settings: continue, resume and the optional fields
    settingsValidationWarnings,  \* this.settingsValidationWarnings
    sessionId,        \* this.sessionId (the remembered session id)
    callNo,           \* number of calls started on the instance
    kind,             \* "none" | "generate" | "stream": the current call
    jsonMode,         \* options.responseFormat?.type === 'json'
    options,          \* the sampling parameters of the call options
    optionsPrompt,    \* options.prompt: the messages of the call
    messagesPrompt,   \* local messagesPrompt: the converted prompt
    warnings,         \* local warnings of the call
    status,           \* "idle" | "starting" | "running" | "returned" |
                      \* "thrown" | "closed"
    ampOptions,       \* options handed to execute()
    executeCount,     \* invocations of execute() by the current call
    executeArgs,      \* what the last of them was given, NoArgs before
    abortSignal,      \* options.abortSignal.aborted
    srcSid,           \* session id the external agent gave this invocation
    events,           \* events consumed so far by the current call
    srcDone,          \* "no" | "ended" | "raised": how execute() finished
    raised,           \* the error execute() raised, NoError before
    accumulatedText,  \* local accumulatedText
    textPartId,       \* local textPartId of doStream
    nextId,           \* number of the next id the current call generates
    parts,            \* parts enqueued on the stream controller
    outcome,          \* what doGenerate returned or threw
    pulled,           \* parts the consumer has read from the stream
    parked            \* the locals of the other call in flight on the
                      \* instance, suspended at an await

vars == <<modelState, settings, settingsValidationWarnings, sessionId, callNo,
          kind, jsonMode, options, optionsPrompt, messagesPrompt, warnings,
          status,
          ampOptions, executeCount, executeArgs, abortSignal, srcSid, events, srcDone,
          raised, accumulatedText, textPartId, nextId, parts, outcome,
          pulled, parked>>

instanceVars == <<modelState, settings, settingsValidationWarnings>>
callVars == <<callNo, kind, jsonMode, options, optionsPrompt, messagesPrompt,
              ampOptions, executeCount, executeArgs, srcSid>>

-----------------------------------------------------------------------------
(* Bounds *)

MaxCalls == 2
MaxEvents == 3

-----------------------------------------------------------------------------
(* JavaScript values *)

Undefined == "undefined"

Truthy(v) == v \notin {Undefined, "false", ""}

\* a ?? b
Coalesce(a, b) == IF a = Undefined THEN b ELSE a

Has(r, f) == f \in DOMAIN r

\* r.f, undefined when r has no field f
Get(r, f) == IF Has(r, f) THEN r[f] ELSE Undefined

\* {}
EmptyRecord == [f \in {} |-> Undefined]

Min(a, b) == IF a < b THEN a ELSE b

\* s.substring(0, n)
Substring0(s, n) == SubSeq(s, 1, Min(n, Len(s)))

RECURSIVE Join(_)
\* array.join('')
Join(ss) == IF ss = <<>> THEN <<>> ELSE Head(ss) \o Join(Tail(ss))

-----------------------------------------------------------------------------
(* Texts.  A text is a sequence of tokens; "" is the empty sequence.  The   *)
(* tokens are the ones extractJson and JSON.parse tell apart: braces,       *)
(* brackets, the code fence, the json tag, white space, a JSON scalar and   *)
(* prose.                                                                   *)

Fence == "fence"   \* the triple backtick
Space == " "

\* First index >= from at which tok occurs in t, 0 if none.
IndexFrom(t, tok, from) ==
    LET hits == {i \in from..Len(t) : t[i] = tok}
    IN IF hits = {} THEN 0 ELSE CHOOSE i \in hits : \A j \in hits : i <= j

\* Last index at which tok occurs in t, 0 if none.
LastIndexOf(t, tok) ==
    LET hits == {i \in 1..Len(t) : t[i] = tok}
    IN IF hits = {} THEN 0 ELSE CHOOSE i \in hits : \A j \in hits : j <= i

RECURSIVE TrimStart(_)
TrimStart(t) == IF t # <<>> /\ Head(t) = Space THEN TrimStart(Tail(t)) ELSE t

RECURSIVE TrimEnd(_)
TrimEnd(t) ==
    IF t # <<>> /\ t[Len(t)] = Space THEN TrimEnd(SubSeq(t, 1, Len(t) - 1)) ELSE t

\* String.prototype.trim
Trim(t) == TrimEnd(TrimStart(t))

RECURSIVE IsJsonValue(_)
\* The texts JSON.parse accepts, white space around the value aside: a
\* scalar, an empty object, an empty array, an array of one value.
IsJsonValue(t) ==
    \/ t = <<"1">>
    \/ t = <<"{", "}">>
    \/ t = <<"[", "]">>
    \/ /\ Len(t) >= 3
       /\ t[1] = "["
       /\ t[Len(t)] = "]"
       /\ IsJsonValue(Trim(SubSeq(t, 2, Len(t) - 1)))

\* JSON.parse(t) does not throw
JsonParses(t) == IsJsonValue(Trim(t))

\* The json tag kept as part of the content
CodeBlockContent_KeepTag(t) ==
    LET open == IndexFrom(t, Fence, 1)
        close == IF open = 0 THEN 0 ELSE IndexFrom(t, Fence, open + 1)
    IN IF close = 0 THEN <<>> ELSE Trim(SubSeq(t, open + 1, close - 1))

\* Capture group 1 of the code-block pattern, <<>> when there is no
\* match: the content between the first fence that has a closing fence
\* after it and that closing fence, without the json tag and without the
\* white space around it.
CodeBlockContent(t) ==
    LET open == IndexFrom(t, Fence, 1)
        close == IF open = 0 THEN 0 ELSE IndexFrom(t, Fence, open + 1)
        start == IF close > open + 1 /\ t[open + 1] = "json"
                 THEN open + 2 ELSE open + 1
    IN IF close = 0 THEN <<>> ELSE Trim(SubSeq(t, start, close - 1))

\* The greedy object and array patterns: the span
\* from the first opening token to the last closing token, <<>> if none.
GreedySpan(t, opening, closing) ==
    LET first == IndexFrom(t, opening, 1)
        last == LastIndexOf(t, closing)
    IN IF first = 0 \/ last < first THEN <<>> ELSE SubSeq(t, first, last)

\* Valid JSON returned without the white space around it
extractJson_Trimmed(text) ==
    IF text = <<>> THEN text
    ELSE IF JsonParses(text) THEN Trim(text)
    ELSE IF CodeBlockContent(text) # <<>> /\ JsonParses(CodeBlockContent(text))
         THEN Trim(CodeBlockContent(text))
    ELSE IF GreedySpan(text, "{", "}") # <<>> /\ JsonParses(GreedySpan(text, "{", "}"))
         THEN GreedySpan(text, "{", "}")
    ELSE IF GreedySpan(text, "[", "]") # <<>> /\ JsonParses(GreedySpan(text, "[", "]"))
         THEN GreedySpan(text, "[", "]")
    ELSE text

\* The bracket span tried before the brace span
extractJson_ArrayFirst(text) ==
    IF text = <<>> THEN text
    ELSE IF JsonParses(text) THEN text
    ELSE IF CodeBlockContent(text) # <<>> /\ JsonParses(CodeBlockContent(text))
         THEN Trim(CodeBlockContent(text))
    ELSE IF GreedySpan(text, "[", "]") # <<>> /\ JsonParses(GreedySpan(text, "[", "]"))
         THEN GreedySpan(text, "[", "]")
    ELSE IF GreedySpan(text, "{", "}") # <<>> /\ JsonParses(GreedySpan(text, "{", "}"))
         THEN GreedySpan(text, "{", "}")
    ELSE text

extractJson(text) ==
    IF text = <<>> THEN text
    ELSE IF JsonParses(text) THEN text
    ELSE IF CodeBlockContent(text) # <<>> /\ JsonParses(CodeBlockContent(text))
         THEN Trim(CodeBlockContent(text))
    ELSE IF GreedySpan(text, "{", "}") # <<>> /\ JsonParses(GreedySpan(text, "{", "}"))
         THEN GreedySpan(text, "{", "}")
    ELSE IF GreedySpan(text, "[", "]") # <<>> /\ JsonParses(GreedySpan(text, "[", "]"))
         THEN GreedySpan(text, "[", "]")
    ELSE text

-----------------------------------------------------------------------------
(* Errors.  A message is a sequence of words.                              *)

LowerWord(w) ==
    CASE w = "Unauthorized" -> "unauthorized"
      [] w = "Authentication" -> "authentication"
      [] w = "Login" -> "login"
      [] w = "REQUIRED" -> "required"
      [] w = "API" -> "api"
      [] w = "Invalid" -> "invalid"
      [] OTHER -> w

\* String.prototype.toLowerCase
ToLowerCase(m) == [i \in 1..Len(m) |-> LowerWord(m[i])]

\* String.prototype.includes
Includes(m, sub) ==
    \E i \in 0..(Len(m) - Len(sub)) : SubSeq(m, i + 1, i + Len(sub)) = sub

AuthMarkers ==
    { <<"unauthorized">>, <<"authentication">>, <<"api", "key">>,
      <<"not", "authenticated">>, <<"login", "required">> }

PromptExcerptLen == 100
MaxPromptLength == 500000

-----------------------------------------------------------------------------
(* Prompts and their conversion.  A prompt is a sequence of messages        *)
(* [role, content]; the content of a system message is a string, that of    *)
(* the other messages an array of parts.  A string is the sequence of its   *)
(* characters.                                                              *)

NL == "\n"
ImageExcerptLen == 50

\* A system message as the LanguageModelV2Prompt type declares it: its
\* content is a string
SystemMessage(text) ==
    [role |-> "system", content |-> [typeof |-> "string", value |-> text]]
\* A system message whose content is an array of parts
SystemPartsMessage(content) ==
    [role |-> "system", content |-> [typeof |-> "object", value |-> content]]
UserMessage(content) == [role |-> "user", content |-> content]
AssistantMessage(content) == [role |-> "assistant", content |-> content]
ToolMessage(content) == [role |-> "tool", content |-> content]
TextPart(text) == [type |-> "text", text |-> text]

\* A short prompt and one longer than the excerpt an error carries
Prompt == <<UserMessage(<<TextPart(<<"H", "i">>)>>)>>
LongPrompt ==
    <<UserMessage(<<TextPart([i \in 1..(PromptExcerptLen + 5) |->
                                IF i <= PromptExcerptLen THEN "p" ELSE "q"])>>)>>

\* The instruction convertToAmpMessages puts first in JSON mode
JsonInstruction == <<"IMPORTANT:", "respond", "with", "ONLY", "valid", "JSON">>

RECURSIVE JoinWith(_, _)
\* array.join(sep)
JoinWith(ss, sep) ==
    IF ss = <<>> THEN <<>>
    ELSE IF Len(ss) = 1 THEN ss[1]
    ELSE ss[1] \o sep \o JoinWith(Tail(ss), sep)

\* The entries the loop over the content of a system message pushes.  The
\* content is a string, so the loop runs over its characters, and each of
\* them is a string.
SystemEntries(content) ==
    IF content.typeof = "string"
    THEN [i \in 1..Len(content.value) |-> <<"System: ", content.value[i]>>]
    ELSE Join([i \in 1..Len(content.value) |->
                 IF content.value[i].type = "text"
                 THEN << <<"System: ">> \o content.value[i].text >>
                 ELSE <<>>])

\* What the image branch pushes to userParts for part p: one text or none
ImagePartTexts(p) ==
    IF p.image.typeof = "string"
    THEN << <<"[Image: ">> \o Substring0(p.image.value, ImageExcerptLen) \o <<"...]">> >>
    ELSE IF Has(p.image, "url") THEN << <<"[Image URL: ">> \o p.image.url \o <<"]">> >>
    ELSE IF Has(p.image, "base64") THEN << <<"[Image: base64 data]">> >>
    ELSE <<>>

\* A part of an unknown type pushed too, as its type
UserPartTexts_RenderAll(p) ==
    IF p.type = "text" THEN << p.text >>
    ELSE IF p.type = "image" THEN ImagePartTexts(p)
    ELSE << <<p.type>> >>

\* What the loop over the content of a user message pushes to userParts
\* for part p: one text or none
UserPartTexts(p) ==
    IF p.type = "text" THEN << p.text >>
    ELSE IF p.type = "image" THEN ImagePartTexts(p)
    ELSE <<>>

AssistantPartTexts(p) ==
    IF p.type = "text" THEN << p.text >>
    ELSE IF p.type = "tool-call"
    THEN << <<"[Tool Call: ">> \o p.toolName \o <<" with args ">> \o p.args \o <<"]">> >>
    ELSE <<>>

ToolPartEntries(p) ==
    IF p.type = "tool-result"
    THEN << <<"Tool Result (">> \o p.toolName \o <<"): ">> \o p.result >>
    ELSE <<>>

\* The entries one message pushes to messages
MessageEntries(message) ==
    CASE message.role = "system" -> SystemEntries(message.content)
      [] message.role = "user" ->
           LET userParts == Join([i \in 1..Len(message.content) |->
                                    UserPartTexts(message.content[i])])
           IN IF Len(userParts) > 0 THEN << JoinWith(userParts, <<NL>>) >> ELSE <<>>
      [] message.role = "assistant" ->
           LET assistantParts == Join([i \in 1..Len(message.content) |->
                                         AssistantPartTexts(message.content[i])])
           IN IF Len(assistantParts) > 0
              THEN << <<"Assistant: ">> \o JoinWith(assistantParts, <<NL>>) >>
              ELSE <<>>
      [] message.role = "tool" ->
           Join([i \in 1..Len(message.content) |-> ToolPartEntries(message.content[i])])
      [] OTHER -> <<>>

\* convertToAmpMessages(prompt, responseFormat), json telling whether the
\* response format is JSON (without a schema)
convertToAmpMessages(p, json) ==
    JoinWith((IF json THEN <<JsonInstruction, <<>>>> ELSE <<>>)
               \o Join([i \in 1..Len(p) |-> MessageEntries(p[i])]),
             <<NL, NL>>)

\* execute({prompt, options, signal})
ExecuteArgs(text, o) ==
    [prompt |-> text, options |-> o, signal |-> "options.abortSignal"]

AuthRemedy == <<"To", "authenticate", "with", "Amp">>

createAPICallError(message, cause, metadata) ==
    [ name |-> "APICallError", message |-> message, url |-> "amp-sdk",
      requestBodyValues |-> metadata, cause |-> cause ]

createAuthenticationError(message, cause) ==
    [ name |-> "APICallError", message |-> message \o AuthRemedy,
      url |-> "amp-sdk", requestBodyValues |-> EmptyRecord, statusCode |-> 401,
      cause |-> cause ]

\* error.requestBodyValues of an APICallError, undefined otherwise
getErrorMetadata(error) ==
    IF error.name = "APICallError" THEN error.requestBodyValues ELSE Undefined

isAuthenticationError(error) ==
    IF error.name = "APICallError"
    THEN Has(error, "statusCode") /\ error.statusCode \in {401, 403}
    ELSE error.name = "LoadAPIKeyError"

\* The classifier looking for the markers in the message as it is
handleAmpError_CaseSensitive(error, prompt) ==
    IF \E marker \in AuthMarkers : Includes(error.message, marker)
    THEN createAuthenticationError(<<"Amp", "authentication", "failed.">>, error)
    ELSE createAPICallError(error.message, error,
             [ originalError |-> error.message,
               prompt |-> Substring0(prompt, PromptExcerptLen) ])

handleAmpError(error, prompt) ==
    IF \E marker \in AuthMarkers : Includes(ToLowerCase(error.message), marker)
    THEN createAuthenticationError(<<"Amp", "authentication", "failed.">>, error)
    ELSE createAPICallError(error.message, error,
             [ originalError |-> error.message,
               prompt |-> Substring0(prompt, PromptExcerptLen) ])

-----------------------------------------------------------------------------
(* Settings, validation and construction                                   *)

\* continue?: boolean | string and resume?: string of AmpSettings.  A
\* session id given as continue is read by the adapter only for its
\* truthiness, as true is; it is left out.
ContinueVals == {Undefined, "false", "true"}
ResumeVals == {Undefined, "T-B"}
SettingsVals == [continue : ContinueVals, resume : ResumeVals]

\* The errors validateSettings reports for the settings modelled here.
\* The optional fields of AmpSettings, each present or absent in a settings
\* record: one configuration that sets them all (env with an entry whose
\* value is undefined), and one whose turn limit is not positive.
PlainSettings == [continue |-> Undefined, resume |-> Undefined]
FullSettings ==
    [ continue |-> Undefined, resume |-> Undefined, maxTurns |-> 5,
      cwd |-> "/repo", logLevel |-> "debug", logFile |-> "amp.log",
      mcpConfig |-> [server |-> "cmd"],
      env |-> [KEPT |-> "v", DROPPED |-> Undefined],
      toolbox |-> "/tools", permissions |-> <<"allow Bash">>,
      dangerouslyAllowAll |-> "true", verbose |-> "true", logger |-> "false" ]
ConfiguredSettingsVals ==
    { PlainSettings, FullSettings,
      [continue |-> Undefined, resume |-> Undefined, maxTurns |-> 0] }

validLevels == {"debug", "info", "warn", "error", "audit"}

\* The errors validateSettings reports, in the order of the checks.  The
\* permissions of a settings record are an array here, so that check
\* reports nothing.
validateSettingsErrors(s) ==
    (IF Has(s, "maxTurns") /\ s.maxTurns < 1
     THEN <<"maxTurns must be a positive integer">> ELSE <<>>)
    \o (IF Has(s, "cwd") /\ s.cwd \in {"", " "}
        THEN <<"cwd must be a non-empty string">> ELSE <<>>)
    \o (IF Has(s, "logLevel") /\ s.logLevel \notin validLevels
        THEN <<"logLevel must be one of: debug, info, warn, error, audit">>
        ELSE <<>>)
    \o (IF Truthy(s.continue) /\ Truthy(s.resume)
        THEN <<"continue and resume cannot be used together">> ELSE <<>>)

validateSettingsWarnings(s) ==
    IF Has(s, "verbose") /\ Truthy(s.verbose)
         /\ Has(s, "logger") /\ s.logger = "false"
    THEN <<"verbose is enabled but logger is disabled, no logs will be output">>
    ELSE <<>>

validateSettings(s) ==
    [ valid |-> validateSettingsErrors(s) = <<>>,
      errors |-> validateSettingsErrors(s),
      warnings |-> validateSettingsWarnings(s) ]

NoOutcome == [kind |-> "none"]
NoError == [name |-> "none"]
NoArgs == [signal |-> "none"]

\* The locals of a call that has not begun
NoCall ==
    [ callNo |-> 0, kind |-> "none", jsonMode |-> FALSE, options |-> EmptyRecord,
      optionsPrompt |-> <<>>, messagesPrompt |-> <<>>, warnings |-> <<>>,
      status |-> "idle", ampOptions |-> [continue |-> Undefined],
      executeCount |-> 0, executeArgs |-> NoArgs, abortSignal |-> FALSE,
      srcSid |-> Undefined, events |-> <<>>, srcDone |-> "no", raised |-> NoError,
      accumulatedText |-> <<>>, textPartId |-> Undefined, nextId |-> 1,
      parts |-> <<>>, outcome |-> NoOutcome, pulled |-> 0 ]

Init ==
    /\ modelState = "none"
    /\ settings = PlainSettings
    /\ settingsValidationWarnings = <<>>
    /\ sessionId = Undefined
    /\ callNo = 0
    /\ kind = "none"
    /\ jsonMode = FALSE
    /\ options = EmptyRecord
    /\ optionsPrompt = <<>>
    /\ messagesPrompt = <<>>
    /\ warnings = <<>>
    /\ status = "idle"
    /\ ampOptions = [continue |-> Undefined]
    /\ executeCount = 0
    /\ executeArgs = NoArgs
    /\ abortSignal = FALSE
    /\ srcSid = Undefined
    /\ events = <<>>
    /\ srcDone = "no"
    /\ raised = NoError
    /\ accumulatedText = <<>>
    /\ textPartId = Undefined
    /\ nextId = 1
    /\ parts = <<>>
    /\ outcome = NoOutcome
    /\ pulled = 0
    /\ parked = NoCall

\* createModel of the provider: amp(modelId, s).  Invalid settings throw
\* and no instance exists; the warnings of the validation go to the
\* instance.
CreateModel(s) ==
    /\ modelState = "none"
    /\ settings' = s
    /\ modelState' = IF validateSettings(s).valid THEN "ready" ELSE "rejected"
    /\ settingsValidationWarnings' =
          IF validateSettings(s).valid THEN validateSettings(s).warnings ELSE <<>>
    /\ UNCHANGED <<parked, pulled, sessionId, callNo, kind, jsonMode, options, optionsPrompt,
                   messagesPrompt, warnings, status, ampOptions, executeCount,
                   executeArgs, abortSignal,
                   srcSid, events, srcDone, raised, accumulatedText,
                   textPartId, nextId, parts, outcome>>

\* new AmpLanguageModel({id, settings: s}): the exported class, no validation
\* of the settings.
NewAmpLanguageModel(s) ==
    /\ modelState = "none"
    /\ settings' = s
    /\ modelState' = "ready"
    /\ settingsValidationWarnings' = <<>>
    /\ UNCHANGED <<parked, pulled, sessionId, callNo, kind, jsonMode, options, optionsPrompt,
                   messagesPrompt, warnings, status, ampOptions, executeCount,
                   executeArgs, abortSignal,
                   srcSid, events, srcDone, raised, accumulatedText,
                   textPartId, nextId, parts, outcome>>

-----------------------------------------------------------------------------
(* The adapter                                                             *)

\* setSessionId without the guard on the id already held
setSessionId_Overwrite(current, sid) ==
    IF Truthy(sid) THEN sid ELSE current

\* AmpLanguageModel.setSessionId: the value this.sessionId holds afterwards
setSessionId(current, sid) ==
    IF Truthy(sid) /\ ~Truthy(current) THEN sid ELSE current

\* The continue field computed without the remembered session id
ContinueDirective_NoFallback(s, remembered) ==
    IF Truthy(s.continue) THEN s.resume ELSE Undefined

\* The continue field computed without looking at the continuation flag
ContinueDirective_IgnoreFlag(s, remembered) == Coalesce(s.resume, remembered)

\* The continue field of ampOptions
ContinueDirective(s, remembered) ==
    IF Truthy(s.continue) THEN Coalesce(s.resume, remembered) ELSE Undefined

\* The settings fields ampOptions takes over as they are
CopiedSettings ==
    { "dangerouslyAllowAll", "cwd", "logLevel", "logFile", "mcpConfig",
      "toolbox", "permissions" }

\* Object.fromEntries(Object.entries(env).filter(([_, v]) => v !== undefined))
FilterEnv(env) == [k \in {j \in DOMAIN env : env[j] # Undefined} |-> env[k]]

\* ampOptions.  A field whose value is undefined is left out of the record.
buildAmpOptions(s, remembered) ==
    [continue |-> ContinueDirective(s, remembered)]
      @@ [f \in (DOMAIN s \cap CopiedSettings) |-> s[f]]
      @@ (IF Has(s, "env") THEN [env |-> FilterEnv(s.env)] ELSE EmptyRecord)

\* The sampling parameters the adapter does not support, in the order
\* generateAllWarnings looks at them
SamplingParams ==
    << "temperature", "topP", "topK", "presencePenalty", "frequencyPenalty",
       "stopSequences", "seed" >>

\* The condition under which generateAllWarnings pushes param
IsUnsupportedParam_AnyStopSequences(o, param) == Has(o, param)

IsUnsupportedParam(o, param) ==
    /\ Has(o, param)
    /\ param = "stopSequences" => Len(o.stopSequences) > 0

validateModelId(modelId) ==
    IF modelId = "" THEN "Model ID must be a non-empty string" ELSE Undefined

\* The length check compares with MaxPromptLength; its message is
\* abbreviated.
validatePrompt(prompt) ==
    IF prompt = <<>> THEN "Prompt must be a non-empty string"
    ELSE IF Len(prompt) > MaxPromptLength THEN "Prompt exceeds maximum length"
    ELSE Undefined

OtherWarning(message) == [type |-> "other", message |-> message]

\* generateAllWarnings(options, prompt) on an instance whose
\* settingsValidationWarnings is sw and whose model id is modelId
generateAllWarnings(o, prompt, sw, modelId) ==
    LET unsupportedParams ==
            SelectSeq(SamplingParams, LAMBDA param : IsUnsupportedParam(o, param))
    IN [i \in 1..Len(unsupportedParams) |->
            [type |-> "unsupported-setting", setting |-> unsupportedParams[i]]]
       \o [i \in 1..Len(sw) |-> OtherWarning(sw[i])]
       \o (IF validateModelId(modelId) # Undefined
           THEN <<OtherWarning(validateModelId(modelId))>> ELSE <<>>)
       \o (IF validatePrompt(prompt) # Undefined
           THEN <<OtherWarning(validatePrompt(prompt))>> ELSE <<>>)

-----------------------------------------------------------------------------
(* The external agent: the events one execute() invocation can yield       *)

SourceSids == {"T-A", "T-C"}

TextBlock(t) == [type |-> "text", text |-> t]
ToolUseBlock == [type |-> "tool_use"]

\* message.message.content of an assistant event
Contents ==
    { <<ToolUseBlock>>, <<TextBlock(<<"x">>)>>,
      <<TextBlock(<<"{">>), ToolUseBlock, TextBlock(<<"}">>)>> }

InitEvent(sid) == [type |-> "system", subtype |-> "init", session_id |-> sid]

AssistantEvents == {[type |-> "assistant", content |-> c] : c \in Contents}

\* Results not marked is_error: a complete one (result is the formatted
\* answer, the cost is a number), one with nothing but the session id, and
\* one whose subtype is not success, whose usage lacks the input counters
\* and whose cost is not a number.
SuccessResults(sid) ==
    { [type |-> "result", is_error |-> FALSE, subtype |-> "success",
       session_id |-> sid, duration_ms |-> 7110, result |-> <<"Done:", "x">>,
       usage |-> [input_tokens |-> 10, output_tokens |-> 5,
                  cache_creation_input_tokens |-> 3,
                  cache_read_input_tokens |-> 2],
       total_cost_usd |-> [typeof |-> "number", value |-> 25]],
      [type |-> "result", is_error |-> FALSE, session_id |-> sid],
      [type |-> "result", is_error |-> FALSE, subtype |-> "error_max_turns",
       session_id |-> sid, result |-> <<"Done:", "x">>,
       usage |-> [output_tokens |-> 4],
       total_cost_usd |-> [typeof |-> "string", value |-> "0.25"]] }

ErrorResults(sid) ==
    { [type |-> "result", is_error |-> TRUE, subtype |-> "error_during_execution",
       session_id |-> sid, duration_ms |-> 7110, num_turns |-> 2,
       error |-> <<"boom">>],
      [type |-> "result", is_error |-> TRUE, subtype |-> "error_max_turns",
       session_id |-> sid, duration_ms |-> 7110, num_turns |-> 2,
       error |-> <<"Login", "required">>],
      [type |-> "result", is_error |-> TRUE, subtype |-> "error_during_execution",
       session_id |-> sid] }

ResultEvents(sid) == SuccessResults(sid) \cup ErrorResults(sid)

\* What execute() can raise
AbortError == [name |-> "AbortError", message |-> <<"aborted">>]
SourceErrors ==
    { [name |-> "Error", message |-> <<"boom">>],
      [name |-> "Error", message |-> <<"Unauthorized">>] }

\* content.map(c => c.type === 'text' ? c.text : '').join('') of an
\* assistant event, '' when the event has no content
AssistantText(e) ==
    IF Has(e, "content")
    THEN Join([i \in 1..Len(e.content) |->
                 IF e.content[i].type = "text" THEN e.content[i].text ELSE <<>>])
    ELSE <<>>

\* The error thrown for a result event marked is_error
ResultError(e, prompt, withPrompt) ==
    LET errorMsg == IF Has(e, "error") THEN e.error ELSE <<"Unknown", "error">>
        base == [originalError |-> errorMsg, sessionId |-> e.session_id]
        p == IF withPrompt
             THEN [prompt |-> Substring0(prompt, PromptExcerptLen)] ELSE EmptyRecord
        d == IF Has(e, "duration_ms") THEN [durationMs |-> e.duration_ms] ELSE EmptyRecord
        n == IF Has(e, "num_turns") THEN [numTurns |-> e.num_turns] ELSE EmptyRecord
    IN createAPICallError(errorMsg, Undefined, base @@ p @@ d @@ n)

\* rawUsage.f ?? 0
Counter(rawUsage, f) == IF Has(rawUsage, f) THEN rawUsage[f] ELSE 0

\* The usage computed without the cache counters
usage_InputOnly(e) ==
    IF Has(e, "usage")
    THEN [ inputTokens |-> Counter(e.usage, "input_tokens"),
           outputTokens |-> Counter(e.usage, "output_tokens"),
           totalTokens |-> Counter(e.usage, "input_tokens")
                             + Counter(e.usage, "output_tokens") ]
    ELSE [inputTokens |-> 0, outputTokens |-> 0, totalTokens |-> 0]

\* The local usage after the successful result event e
usage(e) ==
    IF Has(e, "usage")
    THEN [ inputTokens |-> Counter(e.usage, "cache_creation_input_tokens")
                             + Counter(e.usage, "cache_read_input_tokens")
                             + Counter(e.usage, "input_tokens"),
           outputTokens |-> Counter(e.usage, "output_tokens"),
           totalTokens |-> Counter(e.usage, "cache_creation_input_tokens")
                             + Counter(e.usage, "cache_read_input_tokens")
                             + Counter(e.usage, "input_tokens")
                             + Counter(e.usage, "output_tokens") ]
    ELSE [inputTokens |-> 0, outputTokens |-> 0, totalTokens |-> 0]

\* 'total_cost_usd' in message && typeof message.total_cost_usd === 'number'
HasNumericCost(e) ==
    Has(e, "total_cost_usd") /\ e.total_cost_usd.typeof = "number"

\* providerMetadata['amp-sdk'] of a result or a finish part
AmpMetadata(sid, e) ==
    [sessionId |-> sid]
      @@ (IF HasNumericCost(e) THEN [costUsd |-> e.total_cost_usd.value] ELSE EmptyRecord)
      @@ (IF Has(e, "duration_ms") THEN [durationMs |-> e.duration_ms] ELSE EmptyRecord)

\* The mapping that knows success only
mapAmpFinishReason_SuccessOnly(subtype) ==
    IF subtype = "success" THEN "stop" ELSE "unknown"

mapAmpFinishReason(subtype) ==
    CASE subtype = "success" -> "stop"
      [] subtype = "error_max_turns" -> "length"
      [] subtype = "error_during_execution" -> "error"
      [] OTHER -> "unknown"

\* Indices of the events of es that carry a session id / are results
SessionEventIdx(es) == {i \in 1..Len(es) : es[i].type \in {"system", "result"}}
ResultIdx(es) == {i \in 1..Len(es) : es[i].type = "result"}
MaxOf(S) == CHOOSE i \in S : \A j \in S : j <= i

\* The session id returned read from the instance
LocalSessionId_Remembered(es) == sessionId

\* The locals of doGenerate once the events es have been consumed
LocalSessionId(es) ==
    IF SessionEventIdx(es) = {} THEN Undefined
    ELSE es[MaxOf(SessionEventIdx(es))].session_id
LocalFinishReason(es) ==
    IF ResultIdx(es) = {} THEN "unknown"
    ELSE mapAmpFinishReason(Get(es[MaxOf(ResultIdx(es))], "subtype"))
LocalUsage(es) ==
    IF ResultIdx(es) = {} THEN [inputTokens |-> 0, outputTokens |-> 0, totalTokens |-> 0]
    ELSE usage(es[MaxOf(ResultIdx(es))])
LocalMetadata(es) ==
    IF ResultIdx(es) = {} THEN [sessionId |-> LocalSessionId(es)]
    ELSE AmpMetadata(LocalSessionId(es), es[MaxOf(ResultIdx(es))])

JsonWarning == OtherWarning("Failed to extract valid JSON from response")

\* The formatted answer of the last result event of es, <<>> if none
ResultAnswer(es) ==
    IF ResultIdx(es) = {} THEN <<>>
    ELSE IF Has(es[MaxOf(ResultIdx(es))], "result")
    THEN es[MaxOf(ResultIdx(es))].result ELSE <<>>

\* The return value with the formatted answer of the result event taken
\* for the text when there is one
GenerateResult_UseAnswer(json, text, es, w) ==
    [ kind |-> "return",
      text |-> IF ResultAnswer(es) # <<>> THEN ResultAnswer(es) ELSE text,
      finishReason |-> LocalFinishReason(es),
      usage |-> LocalUsage(es),
      warnings |-> w,
      providerMetadata |-> LocalMetadata(es) ]

\* What doGenerate returns after the event loop; w is the warnings of the
\* call so far
GenerateResult(json, text, es, w) ==
    LET extractedJson == extractJson(text)
        handled == json /\ text # <<>>
    IN [ kind |-> "return",
         text |-> IF handled /\ JsonParses(extractedJson) THEN extractedJson ELSE text,
         finishReason |-> LocalFinishReason(es),
         usage |-> LocalUsage(es),
         warnings |-> IF handled /\ ~JsonParses(extractedJson)
                      THEN Append(w, JsonWarning) ELSE w,
         providerMetadata |-> LocalMetadata(es) ]

Thrown(error) == [kind |-> "throw", error |-> error]

-----------------------------------------------------------------------------
(* doGenerate                                                              *)

ModelId == "default"

CanStart ==
    modelState = "ready" /\ status \notin {"starting", "running"} /\ callNo < MaxCalls

\* The common beginning of doGenerate and doStream: the prompt is
\* converted, the warnings are generated and the options are built.  o are
\* the sampling parameters of the call options, p the prompt, sid the
\* session id the agent will give the invocation.
StartCall(k, json, sid, o, p) ==
    /\ CanStart
    /\ callNo' = callNo + 1
    /\ kind' = k
    /\ jsonMode' = json
    /\ options' = o
    /\ optionsPrompt' = p
    /\ messagesPrompt' = convertToAmpMessages(p, json)
    /\ warnings' = generateAllWarnings(o, convertToAmpMessages(p, json),
                                       settingsValidationWarnings, ModelId)
    /\ ampOptions' = buildAmpOptions(settings, sessionId)
    /\ abortSignal' = FALSE
    /\ srcSid' = sid
    /\ events' = <<>>
    /\ srcDone' = "no"
    /\ raised' = NoError
    /\ accumulatedText' = <<>>
    /\ textPartId' = Undefined
    /\ nextId' = 1
    /\ outcome' = NoOutcome
    /\ pulled' = 0
    /\ UNCHANGED <<instanceVars, parked, sessionId>>

\* doGenerate up to the first await of the event loop: execute() is invoked
DoGenerate(json, sid, o, p) ==
    /\ StartCall("generate", json, sid, o, p)
    /\ executeCount' = 1
    /\ executeArgs' = ExecuteArgs(messagesPrompt', ampOptions')
    /\ status' = "running"
    /\ parts' = <<>>

Consuming(k) == kind = k /\ status = "running"

\* execute() yields a further event: the event loop of call kind k is
\* awaiting one, fewer than MaxEvents were yielded, the signal is not
\* aborted (an aborted invocation yields nothing more: it raises or ends)
\* and no result event was yielded (the result event is the last one).
Yields(k) ==
    /\ Consuming(k)
    /\ Len(events) < MaxEvents
    /\ ~abortSignal
    /\ ResultIdx(events) = {}

\* The init event, when the agent sends one, is the first of an invocation.
YieldsInit(k) == Yields(k) /\ events = <<>>

\* The session id of the init event written into the settings as well
GenerateInit_StoresResume ==
    /\ YieldsInit("generate")
    /\ LET e == InitEvent(srcSid) IN
         /\ events' = Append(events, e)
         /\ sessionId' = setSessionId(sessionId, e.session_id)
         /\ settings' = [settings EXCEPT !.resume = e.session_id]
    /\ UNCHANGED <<modelState, settingsValidationWarnings, parked, pulled, callVars, warnings, raised,
                   srcDone, jsonMode, status, abortSignal,
                   accumulatedText, textPartId, nextId, parts, outcome>>

GenerateInit ==
    /\ YieldsInit("generate")
    /\ LET e == InitEvent(srcSid) IN
         /\ events' = Append(events, e)
         /\ sessionId' = setSessionId(sessionId, e.session_id)
    /\ UNCHANGED <<instanceVars, parked, pulled, callVars, warnings, raised, srcDone, jsonMode, status, abortSignal,
                   accumulatedText, textPartId, nextId, parts, outcome>>

GenerateAssistant(e) ==
    /\ Yields("generate")
    /\ events' = Append(events, e)
    /\ accumulatedText' = accumulatedText \o AssistantText(e)
    /\ UNCHANGED <<instanceVars, parked, pulled, callVars, warnings, raised, srcDone, sessionId, jsonMode, status, abortSignal,
                   textPartId, nextId, parts, outcome>>

\* The session id of a result event marked is_error is not recorded
GenerateResultEvent_SkipSidOnError(e) ==
    /\ Yields("generate")
    /\ events' = Append(events, e)
    /\ sessionId' = IF e.is_error THEN sessionId
                    ELSE setSessionId(sessionId, e.session_id)
    /\ IF e.is_error
       THEN /\ outcome' = Thrown(handleAmpError(
                               ResultError(e, messagesPrompt, TRUE), messagesPrompt))
            /\ status' = "thrown"
       ELSE UNCHANGED <<outcome, status>>
    /\ UNCHANGED <<instanceVars, parked, pulled, callVars, warnings, raised, srcDone, jsonMode, abortSignal, accumulatedText,
                   textPartId, nextId, parts>>

GenerateResultEvent(e) ==
    /\ Yields("generate")
    /\ events' = Append(events, e)
    /\ sessionId' = setSessionId(sessionId, e.session_id)
    /\ IF e.is_error
       THEN /\ outcome' = Thrown(handleAmpError(
                               ResultError(e, messagesPrompt, TRUE), messagesPrompt))
            /\ status' = "thrown"
       ELSE UNCHANGED <<outcome, status>>
    /\ UNCHANGED <<instanceVars, parked, pulled, callVars, warnings, raised, srcDone, jsonMode, abortSignal, accumulatedText,
                   textPartId, nextId, parts>>

\* The event sequence ends: a call that got no result event throws
GenerateEnd_RequireResult ==
    /\ Consuming("generate")
    /\ outcome' = IF ResultIdx(events) = {}
                  THEN Thrown(handleAmpError(
                                  [name |-> "Error", message |-> <<"no", "result">>],
                                  messagesPrompt))
                  ELSE GenerateResult(jsonMode, accumulatedText, events, warnings)
    /\ srcDone' = "ended"
    /\ status' = IF ResultIdx(events) = {} THEN "thrown" ELSE "returned"
    /\ UNCHANGED <<instanceVars, parked, pulled, callVars, raised, sessionId, jsonMode, abortSignal, events,
                   accumulatedText, warnings, textPartId, nextId, parts>>

\* The event sequence ends: JSON handling and return
GenerateEnd ==
    /\ Consuming("generate")
    /\ outcome' = GenerateResult(jsonMode, accumulatedText, events, warnings)
    /\ accumulatedText' = outcome'.text
    /\ warnings' = outcome'.warnings
    /\ srcDone' = "ended"
    /\ status' = "returned"
    /\ UNCHANGED <<instanceVars, parked, pulled, callVars, raised, sessionId, jsonMode, abortSignal, events,
                   textPartId, nextId, parts>>

\* execute() raises: the agent is invoked once more
GenerateRaise_Retry(err) ==
    /\ Consuming("generate")
    /\ err = AbortError => abortSignal
    /\ executeCount < 2
    /\ executeCount' = executeCount + 1
    /\ raised' = err
    /\ events' = <<>>
    /\ accumulatedText' = <<>>
    /\ UNCHANGED <<instanceVars, parked, pulled, callNo, kind, jsonMode, options, optionsPrompt,
                   messagesPrompt, ampOptions, executeArgs, srcSid, warnings,
                   sessionId, abortSignal, srcDone, status, textPartId, nextId,
                   parts, outcome>>

\* execute() raises: catch, classify, rethrow
GenerateRaise(err) ==
    /\ Consuming("generate")
    /\ err = AbortError => abortSignal
    /\ outcome' = Thrown(handleAmpError(err, messagesPrompt))
    /\ srcDone' = "raised"
    /\ raised' = err
    /\ status' = "thrown"
    /\ UNCHANGED <<instanceVars, parked, pulled, callVars, warnings, sessionId, jsonMode, abortSignal, events,
                   accumulatedText, textPartId, nextId, parts>>

\* The caller aborts the signal it passed in options.abortSignal
Abort ==
    /\ status = "running"
    /\ ~abortSignal
    /\ abortSignal' = TRUE
    /\ UNCHANGED <<instanceVars, parked, pulled, callVars, warnings, raised, sessionId, status,
                   events, srcDone, accumulatedText, textPartId, nextId,
                   parts, outcome>>

-----------------------------------------------------------------------------
(* doStream: the start callback of the ReadableStream                      *)

\* The stream-start part without the warnings of the call
StreamStartPart_NoWarnings(w) == [type |-> "stream-start", warnings |-> <<>>]

StreamStartPart(w) == [type |-> "stream-start", warnings |-> w]
ResponseMetadataPart(e) ==
    [type |-> "response-metadata", id |-> e.session_id, modelId |-> ModelId]
TextStartPart(id) == [type |-> "text-start", id |-> id]
TextDeltaPart(id, delta) == [type |-> "text-delta", id |-> id, delta |-> delta]
TextEndPart(id) == [type |-> "text-end", id |-> id]
\* The finish part without the cost
FinishPart_NoCost(e) ==
    [ type |-> "finish", finishReason |-> mapAmpFinishReason(Get(e, "subtype")),
      usage |-> usage(e),
      providerMetadata |->
          [sessionId |-> e.session_id]
            @@ (IF Has(e, "duration_ms") THEN [durationMs |-> e.duration_ms]
                ELSE EmptyRecord) ]

FinishPart(e) ==
    [ type |-> "finish", finishReason |-> mapAmpFinishReason(Get(e, "subtype")),
      usage |-> usage(e),
      providerMetadata |-> AmpMetadata(e.session_id, e) ]
ErrorPart(error) == [type |-> "error", error |-> error]

\* generateId(): the n-th id generated by call c, unlike every other id
generateId(c, n) == "id-" \o ToString(c) \o "-" \o ToString(n)

\* doStream up to the first statement of the try block of start(): the
\* options are built, the stream is created and stream-start is enqueued
DoStream(json, sid, o, p) ==
    /\ StartCall("stream", json, sid, o, p)
    /\ executeCount' = 0
    /\ executeArgs' = NoArgs
    /\ status' = "starting"
    /\ parts' = <<StreamStartPart(warnings')>>

\* The next statement of start(): execute() is invoked
StreamExecute ==
    /\ kind = "stream"
    /\ status = "starting"
    /\ executeCount' = executeCount + 1
    /\ executeArgs' = ExecuteArgs(messagesPrompt, ampOptions)
    /\ status' = "running"
    /\ UNCHANGED <<instanceVars, parked, pulled, sessionId, callNo, kind, jsonMode, options,
                   optionsPrompt, messagesPrompt, warnings, ampOptions, abortSignal, srcSid,
                   events, srcDone, raised, accumulatedText, textPartId,
                   nextId, parts, outcome>>

\* The session id of the init event of a stream is not recorded
StreamInit_NoRecord ==
    /\ YieldsInit("stream")
    /\ LET e == InitEvent(srcSid) IN
         /\ events' = Append(events, e)
         /\ parts' = Append(parts, ResponseMetadataPart(e))
    /\ UNCHANGED <<instanceVars, parked, pulled, callVars, warnings, raised, srcDone,
                   sessionId, jsonMode, status, abortSignal,
                   accumulatedText, textPartId, nextId, outcome>>

StreamInit ==
    /\ YieldsInit("stream")
    /\ LET e == InitEvent(srcSid) IN
         /\ events' = Append(events, e)
         /\ sessionId' = setSessionId(sessionId, e.session_id)
         /\ parts' = Append(parts, ResponseMetadataPart(e))
    /\ UNCHANGED <<instanceVars, parked, pulled, callVars, warnings, raised, srcDone, jsonMode, status, abortSignal,
                   accumulatedText, textPartId, nextId, outcome>>

\* The first text opens the text part and its delta is not sent
AssistantParts_OpenOnly(json, partId, fresh, text) ==
    IF text = <<>> \/ json THEN <<>>
    ELSE IF partId = Undefined
    THEN <<TextStartPart(fresh)>>
    ELSE <<TextDeltaPart(partId, text)>>

\* Assistant parts streamed in JSON mode too
AssistantParts_StreamJson(json, partId, fresh, text) ==
    IF text = <<>> THEN <<>>
    ELSE IF partId = Undefined
    THEN <<TextStartPart(fresh), TextDeltaPart(fresh, text)>>
    ELSE <<TextDeltaPart(partId, text)>>

\* The parts an assistant event whose text is text causes: none for an
\* empty text and none in JSON mode
AssistantParts(json, partId, fresh, text) ==
    IF text = <<>> \/ json THEN <<>>
    ELSE IF partId = Undefined
    THEN <<TextStartPart(fresh), TextDeltaPart(fresh, text)>>
    ELSE <<TextDeltaPart(partId, text)>>

StreamAssistant(e) ==
    /\ Yields("stream")
    /\ events' = Append(events, e)
    /\ LET text == AssistantText(e)
           fresh == generateId(callNo, nextId)
           new == AssistantParts(jsonMode, textPartId, fresh, text)
           opens == new # <<>> /\ textPartId = Undefined
       IN /\ accumulatedText' = accumulatedText \o text
          /\ parts' = parts \o new
          /\ textPartId' = IF opens THEN fresh ELSE textPartId
          /\ nextId' = IF opens THEN nextId + 1 ELSE nextId
    /\ UNCHANGED <<instanceVars, parked, pulled, callVars, warnings, raised, srcDone, sessionId, jsonMode, status, abortSignal,
                   outcome>>

\* The JSON triple emitted for an empty accumulated text too
ResultTextParts_EmptyTriple(json, text, partId, fresh) ==
    IF json
    THEN <<TextStartPart(fresh), TextDeltaPart(fresh, extractJson(text)),
           TextEndPart(fresh)>>
    ELSE IF partId # Undefined THEN <<TextEndPart(partId)>>
    ELSE <<>>

\* The JSON triple carrying the accumulated text as it is
ResultTextParts_RawDelta(json, text, partId, fresh) ==
    IF json /\ text # <<>>
    THEN <<TextStartPart(fresh), TextDeltaPart(fresh, text), TextEndPart(fresh)>>
    ELSE IF partId # Undefined THEN <<TextEndPart(partId)>>
    ELSE <<>>

\* The text parts a successful result event causes
ResultTextParts(json, text, partId, fresh) ==
    IF json /\ text # <<>>
    THEN <<TextStartPart(fresh), TextDeltaPart(fresh, extractJson(text)),
           TextEndPart(fresh)>>
    ELSE IF partId # Undefined THEN <<TextEndPart(partId)>>
    ELSE <<>>

StreamResult(e) ==
    /\ Yields("stream")
    /\ events' = Append(events, e)
    /\ sessionId' = setSessionId(sessionId, e.session_id)
    /\ IF ~e.is_error
       THEN /\ parts' = parts
                 \o ResultTextParts(jsonMode, accumulatedText, textPartId,
                                    generateId(callNo, nextId))
                 \o <<FinishPart(e)>>
            /\ nextId' = IF jsonMode /\ accumulatedText # <<>>
                         THEN nextId + 1 ELSE nextId
            /\ UNCHANGED status
       ELSE /\ parts' = Append(parts,
                 ErrorPart(handleAmpError(
                     ResultError(e, messagesPrompt, FALSE), messagesPrompt)))
            /\ status' = "closed"
            /\ UNCHANGED nextId
    /\ UNCHANGED <<instanceVars, parked, pulled, callVars, warnings, raised, srcDone, jsonMode, abortSignal, accumulatedText,
                   textPartId, outcome>>

\* The event sequence ends: controller.close()
StreamEnd ==
    /\ Consuming("stream")
    /\ srcDone' = "ended"
    /\ status' = "closed"
    /\ UNCHANGED <<instanceVars, parked, pulled, callVars, warnings, raised, sessionId, jsonMode, abortSignal, events,
                   accumulatedText, textPartId, nextId, parts, outcome>>

\* execute() raises: an abort closes the stream without an error part
StreamRaise_DropAbort(err) ==
    /\ Consuming("stream")
    /\ err = AbortError => abortSignal
    /\ parts' = IF err = AbortError THEN parts
                ELSE Append(parts, ErrorPart(handleAmpError(err, messagesPrompt)))
    /\ srcDone' = "raised"
    /\ raised' = err
    /\ status' = "closed"
    /\ UNCHANGED <<instanceVars, parked, pulled, callVars, warnings, sessionId, jsonMode, abortSignal, events,
                   accumulatedText, textPartId, nextId, outcome>>

\* execute() raises: catch, enqueue the classified error, close
StreamRaise(err) ==
    /\ Consuming("stream")
    /\ err = AbortError => abortSignal
    /\ parts' = Append(parts, ErrorPart(handleAmpError(err, messagesPrompt)))
    /\ srcDone' = "raised"
    /\ raised' = err
    /\ status' = "closed"
    /\ UNCHANGED <<instanceVars, parked, pulled, callVars, warnings, sessionId, jsonMode, abortSignal, events,
                   accumulatedText, textPartId, nextId, outcome>>

\* The consumer of the stream reads the next part enqueued
ReadPart ==
    /\ kind = "stream"
    /\ pulled < Len(parts)
    /\ pulled' = pulled + 1
    /\ UNCHANGED <<instanceVars, parked, callVars, warnings, raised, sessionId,
                   status, abortSignal, events, srcDone, accumulatedText,
                   textPartId, nextId, parts, outcome>>

-----------------------------------------------------------------------------
(* Two calls in flight on one instance.  A call runs from one await to the *)
(* next without interruption; at an await the other call may go on.  The   *)
(* variables of a call hold the locals of the call that is running, parked *)
(* those of the call that waits; the fields of the instance are shared.    *)

\* The locals of the running call
RunningCall ==
    [ callNo |-> callNo, kind |-> kind, jsonMode |-> jsonMode, options |-> options,
      optionsPrompt |-> optionsPrompt, messagesPrompt |-> messagesPrompt,
      warnings |-> warnings, status |-> status, ampOptions |-> ampOptions,
      executeCount |-> executeCount, executeArgs |-> executeArgs,
      abortSignal |-> abortSignal, srcSid |-> srcSid, events |-> events,
      srcDone |-> srcDone, raised |-> raised, accumulatedText |-> accumulatedText,
      textPartId |-> textPartId, nextId |-> nextId, parts |-> parts,
      outcome |-> outcome, pulled |-> pulled ]

\* The running call reaches an await and the other call goes on, or the
\* caller turns to a call it has not made yet.  callNo stays the number of
\* calls made until that call is made.
Switch ==
    /\ modelState = "ready"
    /\ parked # RunningCall
    /\ parked' = RunningCall
    /\ callNo' = IF parked.kind = "none" THEN callNo ELSE parked.callNo
    /\ kind' = parked.kind
    /\ jsonMode' = parked.jsonMode
    /\ options' = parked.options
    /\ optionsPrompt' = parked.optionsPrompt
    /\ messagesPrompt' = parked.messagesPrompt
    /\ warnings' = parked.warnings
    /\ status' = parked.status
    /\ ampOptions' = parked.ampOptions
    /\ executeCount' = parked.executeCount
    /\ executeArgs' = parked.executeArgs
    /\ abortSignal' = parked.abortSignal
    /\ srcSid' = parked.srcSid
    /\ events' = parked.events
    /\ srcDone' = parked.srcDone
    /\ raised' = parked.raised
    /\ accumulatedText' = parked.accumulatedText
    /\ textPartId' = parked.textPartId
    /\ nextId' = parked.nextId
    /\ parts' = parked.parts
    /\ outcome' = parked.outcome
    /\ pulled' = parked.pulled
    /\ UNCHANGED <<instanceVars, sessionId>>

-----------------------------------------------------------------------------

Next ==
    \/ \E s \in SettingsVals : CreateModel(s)
    \/ \E s \in SettingsVals : NewAmpLanguageModel(s)
    \/ \E json \in BOOLEAN, sid \in SourceSids :
           DoGenerate(json, sid, EmptyRecord, Prompt)
    \/ GenerateInit
    \/ \E e \in AssistantEvents : GenerateAssistant(e)
    \/ \E e \in ResultEvents(srcSid) : GenerateResultEvent(e)
    \/ GenerateEnd
    \/ \E err \in SourceErrors \cup {AbortError} : GenerateRaise(err)
    \/ \E json \in BOOLEAN, sid \in SourceSids :
           DoStream(json, sid, EmptyRecord, Prompt)
    \/ StreamExecute
    \/ StreamInit
    \/ \E e \in AssistantEvents : StreamAssistant(e)
    \/ \E e \in ResultEvents(srcSid) : StreamResult(e)
    \/ StreamEnd
    \/ \E err \in SourceErrors \cup {AbortError} : StreamRaise(err)
    \/ Abort

Spec == Init /\ [][Next]_vars

-----------------------------------------------------------------------------
(* The adapter with configured settings, sampling parameters in the call   *)
(* options and prompts of several lengths, in front of an agent that gives *)
(* one session id, sends one kind of assistant event and fails in every    *)
(* way the classifier tells apart.                                         *)

AllSamplingOptions ==
    [ temperature |-> 0, topP |-> 1, topK |-> 40, presencePenalty |-> 0,
      frequencyPenalty |-> 0, stopSequences |-> <<"END">>, seed |-> 7 ]

\* No parameter, each parameter alone, all of them, and an empty list of
\* stop sequences
SamplingOptionVals ==
    { EmptyRecord, AllSamplingOptions, [stopSequences |-> <<>>] }
      \cup { [f \in {SamplingParams[i]} |-> AllSamplingOptions[f]] :
                i \in 1..Len(SamplingParams) }

CallInputs ==
    { [options |-> o, prompt |-> Prompt] : o \in SamplingOptionVals }
      \cup { [options |-> AllSamplingOptions, prompt |-> LongPrompt],
             [options |-> EmptyRecord, prompt |-> LongPrompt],
             [options |-> EmptyRecord, prompt |-> <<>>] }

ConfiguredSid == "T-A"

ConfiguredAssistantEvents ==
    {[type |-> "assistant", content |-> <<TextBlock(<<"x">>)>>]}

ConfiguredResultEvents ==
    {e \in SuccessResults(ConfiguredSid) : Has(e, "usage") /\ Has(e, "duration_ms")}
      \cup ErrorResults(ConfiguredSid)

\* What execute() can raise: messages with each of the markers the
\* classifier looks for, in several cases, and messages without
ConfiguredSourceErrors ==
    SourceErrors \cup
    { [name |-> "Error", message |-> <<"Authentication", "error">>],
      [name |-> "Error", message |-> <<"Invalid", "API", "key">>],
      [name |-> "Error", message |-> <<"not", "authenticated">>],
      [name |-> "Error", message |-> <<"Login", "REQUIRED">>],
      [name |-> "Error", message |-> <<"key", "required">>],
      AbortError }

NextConfigured ==
    \/ \E s \in ConfiguredSettingsVals : CreateModel(s)
    \/ \E s \in ConfiguredSettingsVals : NewAmpLanguageModel(s)
    \/ \E json \in BOOLEAN, c \in CallInputs :
           DoGenerate(json, ConfiguredSid, c.options, c.prompt)
    \/ GenerateInit
    \/ \E e \in ConfiguredAssistantEvents : GenerateAssistant(e)
    \/ \E e \in ConfiguredResultEvents : GenerateResultEvent(e)
    \/ GenerateEnd
    \/ \E err \in ConfiguredSourceErrors : GenerateRaise(err)
    \/ \E json \in BOOLEAN, c \in CallInputs :
           DoStream(json, ConfiguredSid, c.options, c.prompt)
    \/ StreamExecute
    \/ StreamInit
    \/ \E e \in ConfiguredAssistantEvents : StreamAssistant(e)
    \/ \E e \in ConfiguredResultEvents : StreamResult(e)
    \/ StreamEnd
    \/ \E err \in ConfiguredSourceErrors : StreamRaise(err)
    \/ Abort

SpecConfigured == Init /\ [][NextConfigured]_vars

-----------------------------------------------------------------------------
(* The inputs of validateSettings and convertToAmpMessages: settings with   *)
(* every combination of continue and resume, an empty and a blank resume    *)
(* included, and prompts of up to MaxMessages messages, one prompt for a    *)
(* model of plain settings; the agent ends every invocation at once.        *)

MaxMessages == 2

InputSettingsVals ==
    [continue : ContinueVals, resume : ResumeVals \cup {"", " "}]

UnknownPart(type) == [type |-> type]

BeTerse == <<"B", "e", " ", "t", "e", "r", "s", "e">>

PromptMessages ==
    { SystemMessage(BeTerse),
      SystemMessage(<<"T">>),
      SystemPartsMessage(<<TextPart(BeTerse), UnknownPart("file")>>),
      UserMessage(<<TextPart(<<"H", "i">>)>>),
      UserMessage(<<TextPart(<<"a">>), TextPart(<<"b">>)>>),
      UserMessage(<<TextPart(<<"a">>), UnknownPart("file"), TextPart(<<"b">>)>>),
      UserMessage(<<UnknownPart("file")>>),
      UserMessage(<<[type |-> "image",
                     image |-> [typeof |-> "object", url |-> <<"u">>]]>>),
      AssistantMessage(<<TextPart(<<"o", "k">>), UnknownPart("reasoning")>>),
      ToolMessage(<<[type |-> "tool-result", toolName |-> <<"t">>, result |-> <<"r">>],
                    UnknownPart("note")>>) }

RECURSIVE SeqsUpTo(_, _)
\* The sequences of at most n elements of S
SeqsUpTo(S, n) ==
    IF n = 0 THEN {<<>>}
    ELSE SeqsUpTo(S, n - 1)
           \cup {Append(q, x) : q \in {r \in SeqsUpTo(S, n - 1) : Len(r) = n - 1}, x \in S}

InputPrompts == SeqsUpTo(PromptMessages, MaxMessages)

NextInputs ==
    \/ \E s \in InputSettingsVals : CreateModel(s)
    \/ /\ settings = PlainSettings
       /\ callNo = 0
       /\ \E json \in BOOLEAN, p \in InputPrompts :
              DoGenerate(json, ConfiguredSid, EmptyRecord, p)
    \/ GenerateEnd

SpecInputs == Init /\ [][NextInputs]_vars

-----------------------------------------------------------------------------
(* The inputs of extractJson: one JSON-mode doGenerate call whose assistant *)
(* events carry pieces of an answer (opening fences with and without the    *)
(* json tag and with prose or another fenced block before them, JSON        *)
(* values and prose, closing fences with and without prose after them);     *)
(* the accumulated text goes through extractJson when the events end.       *)

ExtractPieces ==
    { <<Fence>>,
      <<Fence, "json", Space>>,
      <<"prose", Space, Fence, "json", Space>>,
      <<"prose", "{", Fence>>,
      <<Fence, "prose", Fence, Space, Fence, "json">>,
      <<"{", "}">>,
      <<"1">>,
      <<"[", "1", "]">>,
      <<"prose">>,
      <<"{">>,
      <<Space>>,
      <<Space, Fence, Space, "prose">>,
      <<Space, Fence, "prose", "}">> }

ExtractEvents ==
    {[type |-> "assistant", content |-> <<TextBlock(t)>>] : t \in ExtractPieces}

NextExtract ==
    \/ CreateModel(PlainSettings)
    \/ /\ callNo = 0
       /\ DoGenerate(TRUE, ConfiguredSid, EmptyRecord, Prompt)
    \/ \E e \in ExtractEvents : GenerateAssistant(e)
    \/ GenerateEnd

SpecExtract == Init /\ [][NextExtract]_vars

-----------------------------------------------------------------------------
(* A consumer in front of one doStream call: it reads the parts of the     *)
(* stream one at a time, at any moment or never.                           *)

NextConsumer ==
    \/ CreateModel(PlainSettings)
    \/ /\ callNo = 0
       /\ \E json \in BOOLEAN : DoStream(json, ConfiguredSid, EmptyRecord, Prompt)
    \/ StreamExecute
    \/ StreamInit
    \/ \E e \in AssistantEvents : StreamAssistant(e)
    \/ \E e \in ResultEvents(srcSid) : StreamResult(e)
    \/ StreamEnd
    \/ \E err \in SourceErrors : StreamRaise(err)
    \/ ReadPart

SpecConsumer == Init /\ [][NextConsumer]_vars

-----------------------------------------------------------------------------
(* Two calls raced on one instance that keeps the continuation flag: each  *)
(* is a doGenerate or a doStream call outside JSON mode, the agent gives   *)
(* the first one made the session id T-A and the second one T-C, and the   *)
(* steps of the two calls interleave in every way.                         *)

RacedSettings == [continue |-> "true", resume |-> Undefined]

\* The session id the agent gives the next call made
RacedSid == IF callNo = 0 THEN "T-A" ELSE "T-C"

RacedAssistantEvents ==
    {[type |-> "assistant", content |-> c] :
        c \in {<<TextBlock(<<"x">>)>>, <<TextBlock(<<"{">>), ToolUseBlock, TextBlock(<<"}">>)>>}}

RacedResultEvents(sid) ==
    {e \in ResultEvents(sid) : Has(e, "duration_ms")}

NextRaced ==
    \/ CreateModel(RacedSettings)
    \/ /\ kind = "none"
       /\ DoGenerate(FALSE, RacedSid, EmptyRecord, Prompt)
    \/ GenerateInit
    \/ \E e \in RacedAssistantEvents : GenerateAssistant(e)
    \/ \E e \in RacedResultEvents(srcSid) : GenerateResultEvent(e)
    \/ GenerateEnd
    \/ /\ kind = "none"
       /\ DoStream(FALSE, RacedSid, EmptyRecord, Prompt)
    \/ StreamExecute
    \/ StreamInit
    \/ \E e \in RacedAssistantEvents : StreamAssistant(e)
    \/ \E e \in RacedResultEvents(srcSid) : StreamResult(e)
    \/ StreamEnd
    \/ Switch

SpecRaced == Init /\ [][NextRaced]_vars

-----------------------------------------------------------------------------
(* Vocabulary of the properties                                            *)

LastEvent == events[Len(events)]
LastPart == parts[Len(parts)]

TextPartTypes == {"text-start", "text-delta", "text-end"}
HasPartOfType(types) == \E i \in 1..Len(parts) : parts[i].type \in types

SuccessResultLast ==
    events # <<>> /\ LastEvent.type = "result" /\ ~LastEvent.is_error
ErrorResultLast ==
    events # <<>> /\ LastEvent.type = "result" /\ LastEvent.is_error
NoAssistantEvent == \A i \in 1..Len(events) : events[i].type # "assistant"

ContinueFlagSet == Truthy(settings.continue)

-----------------------------------------------------------------------------
(* C1: the remembered session id is written at most once: a step never     *)
(* changes an id the instance holds, and the id it takes when it holds     *)
(* none is the one the running invocation reports; so after two calls      *)
(* reporting A and then B the remembered id is A.                          *)
C1_SessionIdWrittenOnce ==
    [][ /\ sessionId # Undefined => sessionId' = sessionId
        /\ sessionId = Undefined /\ sessionId' # Undefined
             => status = "running" /\ sessionId' = srcSid ]_vars

\* A second call has ended successfully reporting an id other than the one
\* remembered from the first.
C1_Witness ==
    /\ callNo = 2
    /\ status \in {"returned", "closed"}
    /\ srcDone = "ended"
    /\ SuccessResultLast
    /\ sessionId # Undefined
    /\ LastEvent.session_id # sessionId

C3_ResumeWinsOverRemembered ==
    (ContinueFlagSet /\ settings.resume # Undefined)
      => /\ modelState # "rejected"
         /\ callNo > 0 => ampOptions.continue = settings.resume

(* C4: a model created with a resume id alone (no continuation flag)       *)
(* passes that id as the continuation directive of every invocation.       *)
C4_ResumeAloneResumes ==
    (callNo > 0 /\ settings.continue = Undefined /\ settings.resume # Undefined)
      => ampOptions.continue = settings.resume

(* C5: a model created with continue: true and no resume id passes a       *)
(* continuation directive on every invocation, the first call of a fresh   *)
(* instance included: the directive is never unset.                        *)
C5_ContinueTrueAlwaysDirects ==
    (callNo > 0 /\ settings.continue = "true" /\ settings.resume = Undefined)
      => ampOptions.continue # Undefined

(* C6: whatever the external source does (a result event, an end without   *)
(* result, a raise before or after output, a raise on cancellation), the   *)
(* parts of a closed stream end with a finish part or an error part.       *)
C6_StreamEndsWithFinishOrError ==
    (kind = "stream" /\ status = "closed")
      => LastPart.type \in {"finish", "error"}

\* The error err carries the session id and the duration of result event e
\* in the metadata getErrorMetadata reads.
CarriesResultMetadata(err, e) ==
    LET md == getErrorMetadata(err)
    IN /\ Has(md, "sessionId")
       /\ md.sessionId = e.session_id
       /\ Has(e, "duration_ms")
            => Has(md, "durationMs") /\ md.durationMs = e.duration_ms

(* C7: a result event marked is_error makes doGenerate throw and doStream  *)
(* emit an error part, never a successful result, and the error that       *)
(* reaches the caller carries the session id and the duration of that      *)
(* event in its metadata.                                                  *)
C7_ErrorResultCarriesSessionAndDuration ==
    ErrorResultLast
      => /\ kind = "generate"
              => /\ status = "thrown"
                 /\ outcome.kind = "throw"
                 /\ CarriesResultMetadata(outcome.error, LastEvent)
         /\ kind = "stream"
              => /\ status = "closed"
                 /\ LastPart.type = "error"
                 /\ CarriesResultMetadata(LastPart.error, LastEvent)

(* C8: a doStream call whose event sequence has no assistant-content event *)
(* and ends after a successful result event emits no text-start,           *)
(* text-delta or text-end part and no error part, and its parts end with   *)
(* a finish part.                                                          *)
C8_NoAssistantStreamFinishes ==
    (kind = "stream" /\ srcDone = "ended" /\ NoAssistantEvent /\ SuccessResultLast)
      => /\ ~HasPartOfType(TextPartTypes \cup {"error"})
         /\ LastPart.type = "finish"

\* Such a stream was closed, in JSON mode.
C8_Witness ==
    /\ kind = "stream"
    /\ status = "closed"
    /\ srcDone = "ended"
    /\ jsonMode
    /\ NoAssistantEvent
    /\ SuccessResultLast

\* Every text-delta of ps follows a text-start of its id and no text-end of
\* its id.
DeltasInsideTextPart(ps) ==
    \A i \in 1..Len(ps) :
        ps[i].type = "text-delta"
          => /\ \E j \in 1..(i - 1) :
                    ps[j].type = "text-start" /\ ps[j].id = ps[i].id
             /\ \A k \in 1..(i - 1) :
                    ~(ps[k].type = "text-end" /\ ps[k].id = ps[i].id)

\* Every text-start of ps is followed by a text-end of its id.
TextPartsClosed(ps) ==
    \A i \in 1..Len(ps) :
        ps[i].type = "text-start"
          => \E k \in (i + 1)..Len(ps) :
                 ps[k].type = "text-end" /\ ps[k].id = ps[i].id

(* C9: in the parts of doStream every text-delta lies between the          *)
(* text-start and the text-end of its id, and every text part that was     *)
(* opened is closed by a text-end before the sequence ends, with a finish  *)
(* part or with an error part.                                             *)
C9_TextPartsBracketedAndClosed ==
    kind = "stream"
      => /\ DeltasInsideTextPart(parts)
         /\ status = "closed" => TextPartsClosed(parts)

(* C10: in JSON mode doStream emits no text part while assistant-content   *)
(* events arrive: no text-start, text-delta or text-end is among the parts *)
(* before a result event has been consumed.                                *)
C10_JsonModeBuffersText ==
    (kind = "stream" /\ jsonMode /\ ResultIdx(events) = {})
      => ~HasPartOfType(TextPartTypes)

\* Text has been accumulated from two assistant events in JSON mode and no
\* result event has arrived yet.
C10_Witness ==
    /\ kind = "stream"
    /\ jsonMode
    /\ status = "running"
    /\ Len(events) >= 2
    /\ \A i \in 1..Len(events) : events[i].type = "assistant"
    /\ Len(accumulatedText) >= 2

\* The step consumes a successful result event in a JSON-mode doStream call.
JsonStreamSuccessStep ==
    /\ kind = "stream"
    /\ jsonMode
    /\ Len(events') = Len(events) + 1
    /\ events'[Len(events')].type = "result"
    /\ ~events'[Len(events')].is_error

\* The parts the step enqueued are a text-start, a text-delta carrying
\* delta and a text-end of one id, and then the finish part.
EnqueuedTripleThenFinish(delta) ==
    /\ Len(parts') = Len(parts) + 4
    /\ SubSeq(parts', 1, Len(parts)) = parts
    /\ LET n == Len(parts)
           id == parts'[n + 1].id
       IN /\ parts'[n + 1] = TextStartPart(id)
          /\ parts'[n + 2] = TextDeltaPart(id, delta)
          /\ parts'[n + 3] = TextEndPart(id)
          /\ parts'[n + 4].type = "finish"

(* C11 as stated: on every successful result event in JSON mode doStream   *)
(* emits one text-start / text-delta / text-end triple of one id whose     *)
(* delta is the extractor's output for the accumulated text, and then the  *)
(* finish part.                                                            *)
C11_Original ==
    [][ JsonStreamSuccessStep
          => EnqueuedTripleThenFinish(extractJson(accumulatedText)) ]_vars

(* C11: on a successful result event in JSON mode, when text has been      *)
(* accumulated, doStream emits exactly one text-start / text-delta /       *)
(* text-end triple of one id, whose delta is the extractor's output for    *)
(* the whole accumulated text, directly followed by the finish part; when  *)
(* no text has been accumulated it emits the finish part alone.            *)
C11_JsonTripleThenFinish ==
    [][ JsonStreamSuccessStep
          => IF accumulatedText # <<>>
             THEN EnqueuedTripleThenFinish(extractJson(accumulatedText))
             ELSE /\ Len(parts') = Len(parts) + 1
                  /\ SubSeq(parts', 1, Len(parts)) = parts
                  /\ parts'[Len(parts')].type = "finish" ]_vars

\* A JSON-mode stream has consumed a successful result event after text in
\* which the extractor finds a JSON value that is not the whole text.
C11_Witness ==
    /\ kind = "stream"
    /\ jsonMode
    /\ SuccessResultLast
    /\ accumulatedText # <<>>
    /\ extractJson(accumulatedText) # accumulatedText
    /\ LastPart.type = "finish"

\* The extractor finds no parseable JSON in the accumulated text of a
\* JSON-mode call.
JsonExtractionFails ==
    jsonMode /\ accumulatedText # <<>> /\ ~JsonParses(extractJson(accumulatedText))

HasJsonWarning(w) == \E i \in 1..Len(w) : w[i] = JsonWarning

(* C12: in JSON mode, when the accumulated text holds no parseable JSON,   *)
(* the call does not fail for it: doGenerate returns the text as it is and *)
(* doStream ends with a finish part, and in both the warnings the caller   *)
(* receives (the returned warnings, those of stream-start) report the      *)
(* extraction failure.                                                     *)
C12_ExtractionFailureWarned ==
    (JsonExtractionFails /\ SuccessResultLast /\ srcDone = "ended")
      => /\ kind = "generate"
              => /\ outcome.kind = "return"
                 /\ outcome.text = accumulatedText
                 /\ HasJsonWarning(outcome.warnings)
         /\ kind = "stream"
              => /\ LastPart.type = "finish"
                 /\ HasJsonWarning(parts[1].warnings)

\* The text fragments of the assistant-content events of es, in the order
\* of arrival, as one text.
AssistantFragments(es) ==
    Join([i \in 1..Len(es) |->
            IF es[i].type = "assistant" THEN AssistantText(es[i]) ELSE <<>>])

(* C13: in non-JSON mode the text a doGenerate call returns is the         *)
(* concatenation, in arrival order, of the text fragments of all the       *)
(* assistant-content events of the invocation; the answer field of the     *)
(* result event is no part of it and does not replace it.                  *)
C13_ReturnedTextIsAssistantText ==
    (kind = "generate" /\ ~jsonMode /\ status = "returned")
      => /\ outcome.kind = "return"
         /\ outcome.text = AssistantFragments(events)

\* Such a call returned after two assistant events with different texts
\* and a result event whose answer is another text.
C13_Witness ==
    /\ kind = "generate"
    /\ ~jsonMode
    /\ status = "returned"
    /\ Len(events) = 3
    /\ events[1].type = "assistant"
    /\ events[2].type = "assistant"
    /\ AssistantText(events[1]) # <<>>
    /\ AssistantText(events[2]) # <<>>
    /\ AssistantText(events[1]) # AssistantText(events[2])
    /\ SuccessResultLast
    /\ ResultAnswer(events) # <<>>
    /\ ResultAnswer(events) # outcome.text

\* The raw counter f of result event e, 0 when e has no usage block or the
\* block has no such counter.
RawCounter(e, f) ==
    IF Has(e, "usage") /\ Has(e.usage, f) THEN e.usage[f] ELSE 0

\* The usage u is the one the counters of result event e give.
UsageMatches(u, e) ==
    /\ u.inputTokens = RawCounter(e, "input_tokens")
                         + RawCounter(e, "cache_creation_input_tokens")
                         + RawCounter(e, "cache_read_input_tokens")
    /\ u.outputTokens = RawCounter(e, "output_tokens")
    /\ u.totalTokens = u.inputTokens + u.outputTokens
    /\ ~Has(e, "usage")
         => u.inputTokens = 0 /\ u.outputTokens = 0 /\ u.totalTokens = 0

(* C14: after a successful result event the usage doGenerate returns and   *)
(* the usage of doStream's finish part have inputTokens = input_tokens +   *)
(* cache_creation_input_tokens + cache_read_input_tokens (a missing        *)
(* counter is 0), outputTokens = output_tokens and totalTokens =           *)
(* inputTokens + outputTokens; all three are 0 when the event has no       *)
(* usage block.                                                            *)
C14_UsageFromResultCounters ==
    SuccessResultLast
      => /\ (kind = "generate" /\ status = "returned")
              => UsageMatches(outcome.usage, LastEvent)
         /\ kind = "stream"
              => \A i \in 1..Len(parts) :
                     parts[i].type = "finish" => UsageMatches(parts[i].usage, LastEvent)

\* A finish part was emitted for a result event whose usage block has all
\* four counters, the cache counters not 0.
C14_Witness ==
    /\ kind = "stream"
    /\ SuccessResultLast
    /\ LastPart.type = "finish"
    /\ RawCounter(LastEvent, "cache_creation_input_tokens") > 0
    /\ RawCounter(LastEvent, "cache_read_input_tokens") > 0
    /\ RawCounter(LastEvent, "input_tokens") > 0
    /\ LastPart.usage.totalTokens > LastPart.usage.outputTokens

\* The finish reason the specification gives for a result subtype.
ExpectedFinishReason(subtype) ==
    IF subtype = "success" THEN "stop"
    ELSE IF subtype = "error_max_turns" THEN "length"
    ELSE IF subtype = "error_during_execution" THEN "error"
    ELSE "unknown"

\* Subtypes the mapper can be given: those of result events, that of the
\* init event, an empty one and undefined.
SubtypeSamples ==
    {"success", "error_max_turns", "error_during_execution", "init", "", Undefined}

FinishReasons == {"stop", "length", "error", "unknown"}

(* C15: mapAmpFinishReason is total: success gives stop, error_max_turns   *)
(* length, error_during_execution error and every other input, undefined   *)
(* included, unknown; and the finish reason of a call whose result event   *)
(* is not an error is this function of the event's subtype, whatever text  *)
(* was accumulated.                                                        *)
C15_FinishReasonFromSubtype ==
    /\ \A subtype \in SubtypeSamples :
          /\ mapAmpFinishReason(subtype) \in FinishReasons
          /\ mapAmpFinishReason(subtype) = ExpectedFinishReason(subtype)
    /\ SuccessResultLast
         => /\ (kind = "generate" /\ status = "returned")
                 => outcome.finishReason
                      = ExpectedFinishReason(Get(LastEvent, "subtype"))
            /\ kind = "stream"
                 => \A i \in 1..Len(parts) :
                        parts[i].type = "finish"
                          => parts[i].finishReason
                               = ExpectedFinishReason(Get(LastEvent, "subtype"))

\* A call returned with finish reason length after text was accumulated.
C15_Witness ==
    /\ kind = "generate"
    /\ status = "returned"
    /\ SuccessResultLast
    /\ Get(LastEvent, "subtype") = "error_max_turns"
    /\ accumulatedText # <<>>
    /\ outcome.finishReason = "length"

\* The adapter metadata md has costUsd exactly when result event e reports
\* a numeric cost and durationMs exactly when e reports a duration.
CostAndDurationAsReported(md, e) ==
    /\ Has(md, "costUsd") <=> HasNumericCost(e)
    /\ Has(md, "costUsd") => md.costUsd = e.total_cost_usd.value
    /\ Has(md, "durationMs") <=> Has(e, "duration_ms")
    /\ Has(md, "durationMs") => md.durationMs = e.duration_ms

\* The adapter metadata md has a defined session id.
HasDefinedSessionId(md) == Has(md, "sessionId") /\ md.sessionId # Undefined

(* C16: every result doGenerate returns and every finish part doStream     *)
(* emits carries adapter metadata with a defined sessionId, with costUsd   *)
(* exactly when the result event reports a numeric cost and with           *)
(* durationMs exactly when it reports a duration.                          *)
C16_MetadataHasSessionCostDuration ==
    /\ (kind = "generate" /\ status = "returned")
         => /\ HasDefinedSessionId(outcome.providerMetadata)
            /\ SuccessResultLast
                 => CostAndDurationAsReported(outcome.providerMetadata, LastEvent)
            /\ ~SuccessResultLast
                 => /\ ~Has(outcome.providerMetadata, "costUsd")
                    /\ ~Has(outcome.providerMetadata, "durationMs")
    /\ kind = "stream"
         => \A i \in 1..Len(parts) :
                parts[i].type = "finish"
                  => /\ HasDefinedSessionId(parts[i].providerMetadata)
                     /\ CostAndDurationAsReported(parts[i].providerMetadata, LastEvent)

\* The current call failed: doGenerate threw, doStream emitted an error
\* part.
CallFailed ==
    \/ kind = "generate" /\ status = "thrown"
    \/ kind = "stream" /\ status = "closed" /\ LastPart.type = "error"

\* The error the catch block of the failed call caught: the one execute()
\* raised, or the one the engine threw for a result event marked is_error.
CaughtError ==
    IF srcDone = "raised" THEN raised
    ELSE ResultError(LastEvent, messagesPrompt, kind = "generate")

\* The error that reached the caller of the failed call.
DeliveredError == IF kind = "generate" THEN outcome.error ELSE LastPart.error

\* The messages of the model's errors that contain, in whatever case,
\* unauthorized, authentication, api key, not authenticated or login
\* required, and those that do not.
AuthMessages ==
    { <<"Unauthorized">>, <<"Authentication", "error">>, <<"Invalid", "API", "key">>,
      <<"not", "authenticated">>, <<"Login", "REQUIRED">>, <<"Login", "required">> }
PlainMessages ==
    { <<"boom">>, <<"key", "required">>, <<"aborted">>, <<"Unknown", "error">> }

AuthenticationFailedMessage ==
    <<"Amp", "authentication", "failed.", "To", "authenticate", "with", "Amp">>

\* The first n characters of text
FirstChars(text, n) ==
    [i \in 1..(IF Len(text) < n THEN Len(text) ELSE n) |-> text[i]]

AsksFor(o, param) ==
    /\ param \in DOMAIN o
    /\ param = "stopSequences" => o[param] # <<>>

\* How many warnings of w are unsupported-setting warnings naming param
UnsupportedWarningCount(w, param) ==
    Cardinality({i \in 1..Len(w) :
                    w[i].type = "unsupported-setting" /\ w[i].setting = param})

WarnedOncePerParameter(w) ==
    \A param \in { "temperature", "topP", "topK", "presencePenalty",
                   "frequencyPenalty", "seed", "stopSequences" } :
        UnsupportedWarningCount(w, param) = (IF AsksFor(options, param) THEN 1 ELSE 0)

(* C18: for each of temperature, topP, topK, presencePenalty,              *)
(* frequencyPenalty and seed that is defined in the call options, and for  *)
(* stopSequences when not empty, the warnings of the call (those returned  *)
(* by doGenerate, those of stream-start) hold exactly one                  *)
(* unsupported-setting warning naming it (and none for a parameter not     *)
(* asked for); the external invocation takes place all the same, and a     *)
(* call fails only when the invocation raises or reports an error result.  *)
C18_UnsupportedParametersWarned ==
    callNo > 0
      => /\ WarnedOncePerParameter(warnings)
         /\ (kind = "generate" /\ status = "returned")
              => WarnedOncePerParameter(outcome.warnings)
         /\ kind = "stream" => WarnedOncePerParameter(parts[1].warnings)
         /\ status \in {"running", "returned", "thrown", "closed"}
              => executeCount = 1
         /\ CallFailed => (srcDone = "raised" \/ ErrorResultLast)

\* A call whose options define all seven parameters returned after a
\* successful result event, with seven warnings.
C18_Witness ==
    /\ kind = "generate"
    /\ status = "returned"
    /\ SuccessResultLast
    /\ DOMAIN options = DOMAIN AllSamplingOptions
    /\ Len(outcome.warnings) = 7

\* The parts ps begin with a stream-start part carrying the warnings w and
\* hold no other stream-start part.
BeginsWithStreamStart(ps, w) ==
    /\ ps # <<>>
    /\ ps[1].type = "stream-start"
    /\ ps[1].warnings = w
    /\ \A i \in 2..Len(ps) : ps[i].type # "stream-start"

(* C19: the first part of every doStream sequence is a stream-start part   *)
(* carrying the warnings of the call, and it is already enqueued when the  *)
(* external invocation is started; it stays the first part when the        *)
(* sequence ends with an error part.                                       *)
C19_StreamStartsWithWarnings ==
    [][ /\ kind' = "stream" => BeginsWithStreamStart(parts', warnings')
        /\ (kind' = "stream" /\ executeCount' > 0 /\ executeCount = 0)
             => /\ kind = "stream"
                /\ BeginsWithStreamStart(parts, warnings)
                /\ parts' = parts ]_vars

\* A stream whose call has a warning of an unsupported parameter and one of
\* the settings ended with an error part.
C19_Witness ==
    /\ kind = "stream"
    /\ status = "closed"
    /\ LastPart.type = "error"
    /\ Len(parts[1].warnings) >= 2
    /\ \E i \in 1..Len(parts[1].warnings) :
           parts[1].warnings[i].type = "unsupported-setting"
    /\ \E i \in 1..Len(parts[1].warnings) : parts[1].warnings[i].type = "other"

\* The settings fields the invocation options are to take over: working
\* directory, turn limit, log level and file, MCP server table, toolbox
\* path, permission rules and the skip-permissions flag.
ListedSettingsFields ==
    { "cwd", "maxTurns", "logLevel", "logFile", "mcpConfig", "toolbox",
      "permissions", "dangerouslyAllowAll" }

(* C20: the options of every invocation, of doGenerate and of doStream,    *)
(* hold every listed field configured in the settings with the configured  *)
(* value, the turn limit maxTurns in particular, and the environment       *)
(* overrides that are defined.                                             *)
C20_SettingsPassedToInvocation ==
    callNo > 0
      => /\ \A f \in ListedSettingsFields :
                Has(settings, f) => Has(ampOptions, f) /\ ampOptions[f] = settings[f]
         /\ Has(settings, "env")
              => /\ Has(ampOptions, "env")
                 /\ \A k \in DOMAIN settings.env :
                        settings.env[k] # Undefined
                          => Has(ampOptions.env, k) /\ ampOptions.env[k] = settings.env[k]

\* The prompt of the current call was converted outside JSON mode.
ConvertedPlain == callNo > 0 /\ ~jsonMode

HiMessage == UserMessage(<<TextPart(<<"H", "i">>)>>)
(* C21: convertToAmpMessages renders a system message with text T as the   *)
(* one entry 'System: T' and a user message as its text parts joined by a  *)
(* newline without prefix, and joins the entries of successive messages    *)
(* with a blank line: [user 'Hi'] converts to 'Hi', and [system 'Be        *)
(* terse', user 'Hi'] to 'System: Be terse', a blank line, 'Hi'.           *)
C21_ConversionOfSystemAndUser ==
    ConvertedPlain
      => /\ optionsPrompt = <<HiMessage>> => messagesPrompt = <<"H", "i">>
         /\ optionsPrompt = <<UserMessage(<<TextPart(<<"a">>), TextPart(<<"b">>)>>)>>
              => messagesPrompt = <<"a", NL, "b">>
         /\ optionsPrompt = <<SystemMessage(<<"T">>), HiMessage>>
              => messagesPrompt = <<"System: ", "T", NL, NL, "H", "i">>
         /\ optionsPrompt \in {<<SystemMessage(BeTerse), HiMessage>>,
                               <<SystemPartsMessage(<<TextPart(BeTerse), UnknownPart("file")>>),
                                 HiMessage>>}
              => messagesPrompt = <<"System: ">> \o BeTerse \o <<NL, NL, "H", "i">>

\* The parts of a message that are of a type the converter knows for the
\* role of the message.
KnownParts(message) ==
    LET known == CASE message.role = "user" -> {"text", "image"}
                   [] message.role = "assistant" -> {"text", "tool-call"}
                   [] message.role = "tool" -> {"tool-result"}
                   [] OTHER -> {"text"}
    IN SelectSeq(message.content, LAMBDA part : part.type \in known)

\* The prompt p with the parts of unknown types removed.
WithoutUnknownParts(p) ==
    [i \in 1..Len(p) |->
        IF p[i].role # "system" THEN [role |-> p[i].role, content |-> KnownParts(p[i])]
        ELSE IF p[i].content.typeof = "string" THEN p[i]
        ELSE SystemPartsMessage(KnownParts([role |-> "system",
                                            content |-> p[i].content.value]))]

HasUnknownPart(p) == WithoutUnknownParts(p) # p

(* C22: convertToAmpMessages fails on no prompt: the empty message list    *)
(* converts, outside JSON mode, to the empty string, and a content part of *)
(* an unknown type adds nothing: the output is that of the prompt with the *)
(* part removed; the call goes on to invoke the agent.                     *)
C22_UnknownPartsSkipped ==
    callNo > 0
      => /\ messagesPrompt = convertToAmpMessages(WithoutUnknownParts(optionsPrompt), jsonMode)
         /\ (optionsPrompt = <<>> /\ ~jsonMode) => messagesPrompt = <<>>
         /\ executeCount = 1

\* A prompt whose user message has a part of an unknown type between two
\* text parts was converted.
C22_Witness ==
    /\ ConvertedPlain
    /\ HasUnknownPart(optionsPrompt)
    /\ messagesPrompt = <<"a", NL, "b">>

\* The warning validation.test.ts expects when continue and resume are both
\* set (the backquotes around the names of the settings left out)
BothSetWarning == "Both continue and resume are set. Using resume; ignoring continue."
ResumeError == "resume must be a non-empty string (session ID)"

IsIn(x, seq) == \E i \in DOMAIN seq : seq[i] = x

\* A resume value that is a non-empty, non-blank string
ValidResume(s) == s.resume \notin {Undefined, "", " "}

(* C25: validateSettings accepts settings in which continue (true or       *)
(* false) and a valid resume id are both set: the result is valid, has no  *)
(* error and carries the warning that both are set and resume is used, and *)
(* the provider creates the model; the warning is absent when only one of  *)
(* the two is set.                                                         *)
C25_ContinueAndResumeAccepted ==
    modelState # "none"
      => LET v == validateSettings(settings)
         IN /\ (settings.continue # Undefined /\ ValidResume(settings))
                 => /\ v.valid
                    /\ v.errors = <<>>
                    /\ IsIn(BothSetWarning, v.warnings)
                    /\ modelState = "ready"
            /\ ((settings.continue # Undefined) # (settings.resume # Undefined))
                 => ~IsIn(BothSetWarning, v.warnings)

(* C26: validateSettings reports settings whose resume is an empty or a    *)
(* blank string as invalid, with the error 'resume must be a non-empty     *)
(* string (session ID)', and the provider creates no model for them.       *)
C26_BlankResumeRejected ==
    (modelState # "none" /\ settings.resume \in {"", " "})
      => LET v == validateSettings(settings)
         IN /\ ~v.valid
            /\ IsIn(ResumeError, v.errors)
            /\ modelState = "rejected"

\* A JSON-mode doGenerate call has returned: its text is what extractJson
\* made of the concatenated assistant texts.
Extracted == kind = "generate" /\ jsonMode /\ status = "returned" /\ outcome.kind = "return"

\* No part of the text x is valid JSON.
NoJsonAnywhere(x) ==
    \A i \in 1..Len(x) : \A j \in i..Len(x) : ~JsonParses(SubSeq(x, i, j))

(* C23: extractJson returns its input unchanged when the input is valid    *)
(* JSON and when no part of the input is valid JSON, and extracting from   *)
(* its output gives the output again.                                      *)
C23_ExtractJsonFixesJsonAndIsIdempotent ==
    Extracted
      => LET x == AssistantFragments(events)
             y == outcome.text
         IN /\ JsonParses(x) => y = x
            /\ NoJsonAnywhere(x) => y = x
            /\ extractJson(y) = y

\* Valid JSON with white space around it came back unchanged.
C23_Witness ==
    /\ Extracted
    /\ AssistantFragments(events) = <<Space, "1", Space>>
    /\ outcome.text = <<Space, "1", Space>>

\* The fences of the text x, in order
FencePositions(x) ==
    LET RECURSIVE From(_)
        From(i) == IF i > Len(x) THEN <<>>
                   ELSE IF x[i] = Fence THEN <<i>> \o From(i + 1) ELSE From(i + 1)
    IN From(1)

\* The trimmed contents of the fenced blocks of x, the json tag left out:
\* the first fence opens a block, the next one closes it, and so on.
FencedContents(x) ==
    LET f == FencePositions(x)
        Inner(b) == SubSeq(x, f[2 * b - 1] + 1, f[2 * b] - 1)
        Untagged(t) == IF t # <<>> /\ Head(t) = "json" THEN Tail(t) ELSE t
    IN [b \in 1..(Len(f) \div 2) |-> Trim(Untagged(Inner(b)))]

\* The indices of the fenced blocks of x whose content is valid JSON
JsonBlocks(x) == {b \in DOMAIN FencedContents(x) : JsonParses(FencedContents(x)[b])}

C27_DirectiveFixedAtCallStart ==
    [][ (ContinueFlagSet /\ settings.resume = Undefined)
          => /\ callNo' = callNo + 1 => ampOptions'.continue = sessionId
             /\ callNo' = callNo => ampOptions' = ampOptions
             /\ executeCount' > executeCount => executeArgs'.options = ampOptions' ]_vars

\* A second call carries the id the first call recorded, and has taken an
\* event with another session id since it started.
C27_Witness ==
    /\ ContinueFlagSet
    /\ settings.resume = Undefined
    /\ callNo = 2
    /\ sessionId # Undefined
    /\ ampOptions.continue = sessionId
    /\ events # <<>>
    /\ srcSid # sessionId

\* The call has got as far as invoking the agent.
Invoked == callNo > 0 /\ status \in {"running", "returned", "thrown", "closed"}

TerminalParts == {i \in 1..Len(parts) : parts[i].type \in {"finish", "error"}}

(* C29: a doStream sequence has at most one terminal part, a finish part   *)
(* or an error part, and no part after it, whatever the agent does: events *)
(* or a raise after a successful result event included.                    *)
C29_AtMostOneTerminalPart ==
    kind = "stream"
      => /\ Cardinality(TerminalParts) <= 1
         /\ \A i \in TerminalParts : i = Len(parts)

\* The deltas of the text-delta parts of ps, concatenated in order
TextDeltas(ps) ==
    Join([i \in 1..Len(ps) |-> IF ps[i].type = "text-delta" THEN ps[i].delta ELSE <<>>])

(* C30: outside JSON mode doStream emits the text parts in the arrival     *)
(* order of the assistant events: the step that takes an assistant event   *)
(* with text appends the text-delta of that text, after the text-start if  *)
(* no text part is open yet, and nothing else; an assistant event without  *)
(* text appends nothing; the text-delta parts concatenated are the         *)
(* assistant texts concatenated.                                           *)
C30_TextPartsInArrivalOrder ==
    [][ /\ (kind' = "stream" /\ ~jsonMode')
             => TextDeltas(parts') = AssistantFragments(events')
        /\ (kind = "stream" /\ ~jsonMode /\ Len(events') = Len(events) + 1
               /\ events'[Len(events')].type = "assistant")
             => LET text == AssistantText(events'[Len(events')])
                    n == Len(parts)
                    open == \E i \in 1..n : parts[i].type = "text-start"
                IN IF text = <<>> THEN parts' = parts
                   ELSE /\ SubSeq(parts', 1, n) = parts
                        /\ Len(parts') = IF open THEN n + 1 ELSE n + 2
                        /\ ~open => /\ parts'[n + 1].type = "text-start"
                                    /\ parts'[n + 1].id = parts'[n + 2].id
                        /\ parts'[Len(parts')].type = "text-delta"
                        /\ parts'[Len(parts')].delta = text ]_vars

\* Two assistant events with text and one without between them were
\* streamed: one text-start and two text-delta parts.
C30_Witness ==
    /\ kind = "stream"
    /\ ~jsonMode
    /\ Len(events) = 3
    /\ AssistantText(events[1]) = <<"x">>
    /\ AssistantText(events[2]) = <<>>
    /\ AssistantText(events[3]) = <<"{", "}">>
    /\ TextDeltas(parts) = <<"x", "{", "}">>
    /\ Cardinality({i \in 1..Len(parts) : parts[i].type = "text-start"}) = 1
    /\ Cardinality({i \in 1..Len(parts) : parts[i].type = "text-delta"}) = 2

\* The part of x from the first token opening to the last token closing,
\* <<>> when there is no such part
FirstToLast(x, opening, closing) ==
    LET os == {i \in 1..Len(x) : x[i] = opening}
        cs == {i \in 1..Len(x) : x[i] = closing}
        Least(S) == CHOOSE i \in S : \A j \in S : i <= j
        Greatest(S) == CHOOSE i \in S : \A j \in S : j <= i
    IN IF os = {} \/ cs = {} THEN <<>>
       ELSE IF Greatest(cs) < Least(os) THEN <<>>
       ELSE SubSeq(x, Least(os), Greatest(cs))

\* The candidates of extractJson for the text x, in the order it tries
\* them; <<>> stands for a candidate x does not have.
Candidates(x) ==
    << x,
       IF FencedContents(x) = <<>> THEN <<>> ELSE FencedContents(x)[1],
       FirstToLast(x, "{", "}"),
       FirstToLast(x, "[", "]") >>

ParsingCandidates(x) == {c \in 1..4 : JsonParses(Candidates(x)[c])}

(* C35: extractJson tries the whole input, the content of the first fenced *)
(* code block, the span from the first '{' to the last '}' and the span    *)
(* from the first '[' to the last ']', in this order, and returns the      *)
(* first of them that parses as JSON, so a later candidate only when every *)
(* earlier one failed to parse; when none parses it returns the input      *)
(* unchanged.                                                              *)
C35_FirstParsingCandidateReturned ==
    Extracted
      => LET x == AssistantFragments(events)
             ok == ParsingCandidates(x)
         IN IF ok = {} THEN outcome.text = x
            ELSE \E c \in ok : /\ \A d \in ok : c <= d
                               /\ outcome.text = Candidates(x)[c]

\* The brace span was returned for a text that is not JSON, whose first
\* fenced block is not JSON, and whose bracket span parses too.
C35_Witness ==
    /\ Extracted
    /\ ParsingCandidates(AssistantFragments(events)) = {3, 4}
    /\ FencedContents(AssistantFragments(events)) # <<>>
    /\ outcome.text = <<"{", "}">>

\* The call has ended with an error: doGenerate threw, or the stream closed
\* with an error part.
EndedWithError ==
    \/ kind = "generate" /\ status = "thrown"
    \/ kind = "stream" /\ status = "closed" /\ LastPart.type = "error"

(* C36: a failing call records the session id too.  The step that takes an *)
(* init event, or a result event marked is_error, with a non-empty session *)
(* id while the instance remembers none makes that id the remembered one,  *)
(* and the error result ends the call with an error; no later step, of     *)
(* this or of a later call, changes a remembered id.                       *)
C36_FailingCallsRecordSessionId ==
    [][ /\ sessionId # Undefined => sessionId' = sessionId
        /\ (sessionId = Undefined /\ Len(events') = Len(events) + 1)
             => LET e == events'[Len(events')]
                IN /\ (e.type = "system" /\ Truthy(e.session_id))
                        => sessionId' = e.session_id
                   /\ (e.type = "result" /\ e.is_error /\ Truthy(e.session_id))
                        => /\ sessionId' = e.session_id
                           /\ EndedWithError' ]_vars

\* The first call on the instance got nothing but an error result and
\* failed; its session id is remembered.
C36_Witness ==
    /\ callNo = 1
    /\ Len(events) = 1
    /\ ErrorResultLast
    /\ EndedWithError
    /\ sessionId = LastEvent.session_id

\* A later call ended with a successful result of another session, and the
\* id remembered before is still the remembered one.
C36_LaterCallKeepsId ==
    /\ callNo = 2
    /\ SuccessResultLast
    /\ sessionId # Undefined
    /\ sessionId # LastEvent.session_id
    /\ ampOptions.continue \in {Undefined, sessionId}

\* The events of a doGenerate call ended, and no result event was among
\* them.
EndedWithoutResult ==
    kind = "generate" /\ srcDone = "ended" /\ ResultIdx(events) = {}

ZeroUsage == [inputTokens |-> 0, outputTokens |-> 0, totalTokens |-> 0]

\* doGenerate returned with the values its locals start with.
ReturnedDefaults ==
    /\ status = "returned"
    /\ outcome.kind = "return"
    /\ outcome.finishReason = "unknown"
    /\ outcome.usage = ZeroUsage
    /\ ~Has(outcome.providerMetadata, "costUsd")
    /\ ~Has(outcome.providerMetadata, "durationMs")

(* C37 as stated: when the events end without a result event and without   *)
(* a raise, doGenerate returns the text accumulated so far, finish reason  *)
(* 'unknown', usage of zeros and no cost or duration in the metadata.      *)
C37_Original ==
    EndedWithoutResult
      => /\ ReturnedDefaults
         /\ outcome.text = AssistantFragments(events)

(* C37: when the events end without a result event and without a raise,    *)
(* doGenerate returns, with finish reason 'unknown', usage of zeros and no *)
(* cost or duration in the metadata; the text is the text accumulated so   *)
(* far, or in JSON mode the JSON that extractJson finds in it when it      *)
(* finds any.                                                              *)
C37_EndWithoutResultReturnsDefaults ==
    EndedWithoutResult
      => LET text == AssistantFragments(events)
         IN /\ ReturnedDefaults
            /\ outcome.text = IF jsonMode /\ JsonParses(extractJson(text))
                              THEN extractJson(text) ELSE text

\* A JSON-mode call whose events ended after two assistant events and no
\* result returned the JSON found in their texts.
C37_Witness ==
    /\ EndedWithoutResult
    /\ jsonMode
    /\ AssistantFragments(events) = <<"x", "{", "}">>
    /\ outcome.text = <<"{", "}">>
    /\ outcome.finishReason = "unknown"

(* C39: no step of a doGenerate or doStream call changes the settings of   *)
(* the instance or its stored validation warnings, however the call ends   *)
(* (the model id is one value throughout); the options of an invocation    *)
(* are built anew from the settings and the remembered session id when the *)
(* call starts and stay as built; the remembered session id is the only    *)
(* field of the instance a call changes.                                   *)
C39_CallsLeaveInstanceFieldsUnchanged ==
    [][ modelState # "none"
          => /\ modelState' = modelState
             /\ settings' = settings
             /\ settingsValidationWarnings' = settingsValidationWarnings
             /\ callNo' = callNo + 1 => ampOptions' = buildAmpOptions(settings, sessionId)
             /\ callNo' = callNo => ampOptions' = ampOptions ]_vars

\* The second call on an instance with configured settings and a stored
\* validation warning has ended; a session id was recorded on the way.
C39_Witness ==
    /\ settings = FullSettings
    /\ settingsValidationWarnings # <<>>
    /\ callNo = 2
    /\ status \in {"returned", "thrown", "closed"}
    /\ sessionId # Undefined
    /\ ampOptions = buildAmpOptions(FullSettings, Undefined)

\* The caller aborted and the agent raised its abort error.
AbortRaised == callNo > 0 /\ abortSignal /\ raised = AbortError

(* C33: when the abort signal is set during a call and the agent raises    *)
(* for it, the failure goes the way of every failure: doGenerate throws    *)
(* the classified error, doStream enqueues the classified error as an      *)
(* error part and closes, text-delta parts sent before or not; the call    *)
(* does not end with a finish part or a returned result, and the error is  *)
(* not lost.                                                               *)
C33_AbortTakesTheErrorPath ==
    AbortRaised
      => /\ kind = "generate"
              => /\ status = "thrown"
                 /\ outcome = Thrown(handleAmpError(AbortError, messagesPrompt))
         /\ kind = "stream"
              => /\ status = "closed"
                 /\ LastPart = ErrorPart(handleAmpError(AbortError, messagesPrompt))
                 /\ outcome.kind # "return"

\* A stream that had sent a text-delta was aborted and ended with the error
\* part.
C33_Witness ==
    /\ AbortRaised
    /\ kind = "stream"
    /\ HasPartOfType({"text-delta"})
    /\ LastPart.type = "error"
    /\ LastPart.error.message = <<"aborted">>

\* The events of the call are an event sequence that ends with its one
\* successful result event, and the agent raised nothing.
EndsWithSuccessResult ==
    /\ SuccessResultLast
    /\ Cardinality(ResultIdx(events)) = 1
    /\ raised = NoError

\* What doGenerate returns for the events of the current call
GenerateOfEvents ==
    GenerateResult(jsonMode, AssistantFragments(events), events, <<>>)

TheFinishPart == parts[CHOOSE i \in 1..Len(parts) : parts[i].type = "finish"]

(* C38: doGenerate and doStream agree on every event sequence that ends    *)
(* with one successful result event.  For the events, the mode and the     *)
(* settings of the call, the text-delta parts of doStream concatenated are *)
(* the text doGenerate returns for these events, in plain and in JSON      *)
(* mode, and the finish reason, the usage and the provider metadata of the *)
(* finish part are those of doGenerate's result; a doGenerate call that    *)
(* got these events returns just that.                                     *)
C38_GenerateAndStreamAgree ==
    EndsWithSuccessResult
      => /\ kind = "stream"
              => /\ Cardinality(TerminalParts) = 1
                 /\ TextDeltas(parts) = GenerateOfEvents.text
                 /\ TheFinishPart.finishReason = GenerateOfEvents.finishReason
                 /\ TheFinishPart.usage = GenerateOfEvents.usage
                 /\ TheFinishPart.providerMetadata = GenerateOfEvents.providerMetadata
         /\ (kind = "generate" /\ status = "returned")
              => /\ outcome.text = GenerateOfEvents.text
                 /\ outcome.finishReason = GenerateOfEvents.finishReason
                 /\ outcome.usage = GenerateOfEvents.usage
                 /\ outcome.providerMetadata = GenerateOfEvents.providerMetadata

\* A JSON-mode stream ended with the complete result event after assistant
\* texts from which JSON was extracted.
C38_Witness ==
    /\ EndsWithSuccessResult
    /\ kind = "stream"
    /\ jsonMode
    /\ AssistantFragments(events) = <<"x", "{", "}">>
    /\ TextDeltas(parts) = <<"{", "}">>
    /\ Has(TheFinishPart.providerMetadata, "costUsd")
    /\ TheFinishPart.usage.totalTokens = 20

\* The events of call c that carry a session id
SessionEvents(c) ==
    {i \in 1..Len(c.events) : c.events[i].type \in {"system", "result"}}

\* The session id the agent gave call c, once an event has told it
OwnSessionId(c) == IF SessionEvents(c) = {} THEN Undefined ELSE c.srcSid

\* The successful result events among the events of call c
SuccessResultsOf(c) ==
    {i \in 1..Len(c.events) : c.events[i].type = "result" /\ ~c.events[i].is_error}

FinishPartsOf(c) == {i \in 1..Len(c.parts) : c.parts[i].type = "finish"}

\* What call c has returned or sent is what its own events make it.
FromOwnEvents(c) ==
    /\ \A i \in SessionEvents(c) : c.events[i].session_id = c.srcSid
    /\ (c.kind = "generate" /\ c.status = "returned")
         => /\ c.outcome.text = AssistantFragments(c.events)
            /\ c.outcome.usage = LocalUsage(c.events)
            /\ c.outcome.finishReason = LocalFinishReason(c.events)
            /\ c.outcome.providerMetadata.sessionId = OwnSessionId(c)
    /\ c.kind = "stream"
         => /\ TextDeltas(c.parts) = AssistantFragments(c.events)
            /\ Cardinality(FinishPartsOf(c)) = Cardinality(SuccessResultsOf(c))
            /\ \A i \in FinishPartsOf(c) : \A j \in SuccessResultsOf(c) :
                  /\ c.parts[i].usage = usage(c.events[j])
                  /\ c.parts[i].finishReason = mapAmpFinishReason(Get(c.events[j], "subtype"))
                  /\ c.parts[i].providerMetadata.sessionId = c.srcSid

(* C31: when two calls run at once on an instance, under every             *)
(* interleaving of their steps the text, the usage, the finish reason and  *)
(* the session id each call returns are those of its own events; no step   *)
(* of a call changes a field of the instance other than the remembered     *)
(* session id, and that one is written at most once.                       *)
C31_CallsDeterminedByOwnEvents ==
    /\ [](FromOwnEvents(RunningCall) /\ FromOwnEvents(parked))
    /\ [][ /\ modelState # "none" => UNCHANGED instanceVars
           /\ sessionId # Undefined => sessionId' = sessionId ]_vars

\* A doGenerate call given the session id T-C has returned its own text and
\* its own session id while the call made before it, given T-A, is in
\* flight with another text; the remembered id is T-A.
C31_Witness ==
    /\ kind = "generate"
    /\ status = "returned"
    /\ srcSid = "T-C"
    /\ outcome.text = <<"x">>
    /\ outcome.providerMetadata.sessionId = "T-C"
    /\ parked.status = "running"
    /\ parked.srcSid = "T-A"
    /\ parked.accumulatedText = <<"{", "}">>
    /\ sessionId = "T-A"

\* A call has finished: doGenerate returned or threw, the stream is closed.
Finished(c) == c.status \in {"returned", "thrown", "closed"}

\* Call c reports the session id the agent gave it.
ReportsOwnSessionId(c) ==
    /\ (c.kind = "generate" /\ c.status = "returned" /\ SessionEvents(c) # {})
         => c.outcome.providerMetadata.sessionId = c.srcSid
    /\ c.kind = "stream"
         => \A i \in FinishPartsOf(c) : c.parts[i].providerMetadata.sessionId = c.srcSid

(* C32: when two first calls given the session ids T-A and T-C are raced   *)
(* on a fresh instance, the remembered session id becomes the id of the    *)
(* session-bearing event (init or result) that is processed first and      *)
(* stays that: the id of the other call is dropped, the remembered id is   *)
(* not unset again and is no third value, and it is unset only while no    *)
(* session-bearing event has been processed; each call reports its own     *)
(* session id in the metadata of its result.                               *)
C32_FirstSessionEventWins ==
    /\ [](/\ sessionId \in {Undefined, "T-A", "T-C"}
          /\ sessionId = Undefined
               <=> (SessionEvents(RunningCall) = {} /\ SessionEvents(parked) = {})
          /\ ReportsOwnSessionId(RunningCall)
          /\ ReportsOwnSessionId(parked))
    /\ [][ /\ sessionId # Undefined => sessionId' = sessionId
           /\ (sessionId = Undefined /\ parked' = parked
                 /\ Len(events') = Len(events) + 1
                 /\ events'[Len(events')].type \in {"system", "result"})
                => sessionId' = events'[Len(events')].session_id ]_vars

\* Both calls have finished; the call made first was given T-A and reports
\* it, the call made second was given T-C, and T-C is the remembered id:
\* its session-bearing event was processed first.
C32_Witness ==
    /\ Finished(RunningCall)
    /\ Finished(parked)
    /\ srcSid = "T-A"
    /\ kind = "generate"
    /\ status = "returned"
    /\ outcome.providerMetadata.sessionId = "T-A"
    /\ parked.srcSid = "T-C"
    /\ SessionEvents(parked) # {}
    /\ sessionId = "T-C"

(* C34: the events doStream has consumed from the agent never run ahead of *)
(* the parts its consumer has read by more than the event in flight, and   *)
(* while the consumer has read nothing no event is consumed.  The stream   *)
(* is built with a start() that runs the whole loop over the agent's       *)
(* events and enqueues without waiting for a read, so this is violated.    *)
C34_EventsFollowThePulls ==
    kind = "stream"
      => /\ pulled = 0 => (executeCount = 0 /\ events = <<>>)
         /\ Len(events) <= pulled + 1

====
